---- MODULE Spec2Model ----
(***************************************************************************)
(* A model of project-analyzer.                                            *)
(*                                                                         *)
(*   Spec       CodeParser.parse_files over one path: the visitor          *)
(*              _ModuleVisitor walks the syntax tree of the file, node by  *)
(*              node, in the order ast.NodeVisitor visits them.            *)
(*   SpecDeep   the same for a longer file of few kinds of statements.     *)
(*   SpecEdges  the same for a file of one class name, one method name and *)
(*              an annotation and a call of one attribute.                 *)
(*   SpecBatch  CodeParser.parse_files over a sequence of paths.           *)
(*   SpecDiagram  DiagramGenerator and MermaidDiagramGenerator render one  *)
(*              project.                                                   *)
(*   SpecLoader read_python_source and _read_source_best_effort read one   *)
(*              file.                                                      *)
(*   SpecStack  TechStackAnalyzer.analyze reports on one project.          *)
(*   SpecApi    POST /analyze/local answers one request.                   *)
(*   SpecScan   FileScanner.scan walks one project.                        *)
(*   SpecFetch  GitHubFetcher.fetch is called a few times on one           *)
(*              workspace directory.                                       *)
(*                                                                         *)
(* Python strings that are produced by ast.unparse are sequences of        *)
(* tokens; identifiers are TLA+ strings.  An Optional value is a sequence  *)
(* of length 0 (None) or 1.                                                *)
(***************************************************************************)
EXTENDS Integers, Sequences, FiniteSets, TLC

VARIABLES
    paths,      \* parse_files: the argument `paths`
    loads,      \* the files: what _read_source_best_effort returns for paths[n]
    vocab,      \* the statements the files are made of: "all", "dup", "init" or "edge"
    budget,     \* the number of syntax-tree nodes the files may still hold
    pc,         \* parse_files: "loop", "visit" (inside parse_file), "returned", "raised"
    idx,        \* parse_files: the position of the `for p in paths` loop
    modules,    \* parse_files: the local list `modules`
    project,    \* the value parse_files returned (a sequence of 0 or 1 ProjectModel)
    path,       \* parse_file: the resolved `path`
    src,        \* parse_file: `src`, the _SourceLoadResult
    visitor,    \* parse_file: `visitor`, the _ModuleVisitor
    frames,     \* the visit_ClassDef / visit_FunctionDef calls that are open (node ids)
    tree,       \* the syntax tree of the file, as far as it was visited, in visit order
    outcome,    \* how the last parse_file call ended
    diagram_project,  \* generate_class_diagram: the argument `project`
    diagram_options,  \* generate_class_diagram: the four options, the same for both generators
    plantuml,   \* what DiagramGenerator.generate_class_diagram returned (0 or 1 texts)
    mermaid,    \* what MermaidDiagramGenerator.generate_class_diagram returned
    source_file,  \* the file a source is read from: whether it exists, its bytes
    source_text,  \* how read_python_source(file) ended (0 or 1 outcomes)
    load_result,  \* what _read_source_best_effort(file) returned (0 or 1 results)
    stack_project,  \* TechStackAnalyzer.analyze: the argument `project`
    stack_report,   \* what TechStackAnalyzer.analyze returned (0 or 1 reports)
    api_analysis_root,  \* settings.analysis_root (an Optional path)
    api_request,    \* the AnalyzeLocalRequest posted to /analyze/local
    api_response,   \* the answer (0 or 1): its status code and its detail
    api_scanned,    \* the roots FileScanner.scan was run on
    api_parsed,     \* whether CodeParser.parse_files was called
    scan_gitignores,    \* the .gitignore of each directory of the project (0 or 1 files)
    scan_has_pathspec,  \* GitignoreMatcher._has_pathspec: pathspec can be imported
    scan_result,    \* what FileScanner.scan returned (0 or 1 results)
    fetch_fetcher,    \* the GitHubFetcher: allow_clone, cache_ttl_hours; whether git is in PATH
    fetch_workspace,  \* the directories of workspace_dir
    fetch_result,     \* how the last GitHubFetcher.fetch call ended (0 or 1 outcomes)
    fetch_calls       \* the number of fetch calls made

parser_vars == <<paths, loads, vocab, budget, pc, idx, modules, project, path, src, visitor, frames, tree, outcome>>

diagram_vars == <<diagram_project, diagram_options, plantuml, mermaid>>

loader_vars == <<source_file, source_text, load_result>>

stack_vars == <<stack_project, stack_report>>

api_vars == <<api_analysis_root, api_request, api_response, api_scanned, api_parsed>>

scan_vars == <<scan_gitignores, scan_has_pathspec, scan_result>>

fetch_vars == <<fetch_fetcher, fetch_workspace, fetch_result, fetch_calls>>

vars == <<parser_vars, diagram_vars, loader_vars, stack_vars, api_vars, scan_vars, fetch_vars>>

\* the variables of the other components
beside_parser == <<diagram_vars, loader_vars, stack_vars, api_vars, scan_vars, fetch_vars>>
beside_diagram == <<parser_vars, loader_vars, stack_vars, api_vars, scan_vars, fetch_vars>>
beside_loader == <<parser_vars, diagram_vars, stack_vars, api_vars, scan_vars, fetch_vars>>
beside_stack == <<parser_vars, diagram_vars, loader_vars, api_vars, scan_vars, fetch_vars>>
beside_api == <<parser_vars, diagram_vars, loader_vars, stack_vars, scan_vars, fetch_vars>>
beside_scan == <<parser_vars, diagram_vars, loader_vars, stack_vars, api_vars, fetch_vars>>
beside_fetch == <<parser_vars, diagram_vars, loader_vars, stack_vars, api_vars, scan_vars>>

(***************************************************************************)
(* Bounds.                                                                 *)
(***************************************************************************)
MaxNodes == 3          \* nodes of a file made of any statements (Spec)
MaxDupNodes == 6       \* nodes of a file made of the statements of DupVocabulary
MaxInitNodes == 5      \* nodes of a file made of the statements of InitVocabulary
MaxEdgeNodes == 5      \* nodes of a file made of the statements of EdgeVocabulary
MaxBatchNodes == 2     \* nodes of all files of a batch together
MaxPaths == 2          \* paths of a batch
MaxClasses == 3        \* classes of a project given to the diagram generators
MaxLines == 3          \* lines of a file given to the source loader
MaxEntries == 4        \* import lines, requirement lines and pyproject keys of a project
MaxRules == 2          \* lines of a .gitignore
MaxFetches == 3        \* calls of GitHubFetcher.fetch on one workspace

None == <<>>
Some(x) == <<x>>
Last(s) == s[Len(s)]
Pop(s) == SubSeq(s, 1, Len(s) - 1)
Range(s) == {s[n] : n \in 1..Len(s)}
BoundedSeqs(S, n) == UNION {[1..m -> S] : m \in 0..n}

(***************************************************************************)
(* Expressions of the syntax tree (ast.expr).                              *)
(***************************************************************************)
Name(id) == [k |-> "Name", id |-> id]
Attribute(value, attr) == [k |-> "Attribute", value |-> value, attr |-> attr]
Subscript(value, slice) == [k |-> "Subscript", value |-> value, slice |-> slice]
Call(func) == [k |-> "Call", func |-> func]
\* a string literal whose content is the token sequence s
StrConstant(s) == [k |-> "Constant", isstr |-> TRUE, value |-> s]
\* the literal None
NoneConstant == [k |-> "Constant", isstr |-> FALSE, value |-> <<"None">>]

Identifiers == {"Foo", "int", "list", "pkg"}

ExprLevel0 == {Name(n) : n \in Identifiers} \cup {NoneConstant}
ExprLevel1 == ExprLevel0 \cup {Attribute(Name("pkg"), n) : n \in Identifiers \ {"pkg"}}

RECURSIVE unparse(_)
unparse(e) ==
    CASE e.k = "Name" -> <<e.id>>
      [] e.k = "Attribute" -> unparse(e.value) \o <<".", e.attr>>
      [] e.k = "Subscript" -> unparse(e.value) \o <<"[">> \o unparse(e.slice) \o <<"]">>
      [] e.k = "Call" -> unparse(e.func) \o <<"(", ")">>
      [] e.k = "Constant" -> IF e.isstr THEN <<"'">> \o e.value \o <<"'">> ELSE e.value

ExprLevel2 == ExprLevel1 \cup {StrConstant(unparse(e)) : e \in ExprLevel1}
ExprUniverse ==
    ExprLevel2 \cup {Subscript(v, s) : v \in ExprLevel0, s \in ExprLevel2}
               \cup {Call(f) : f \in ExprLevel1}

\* ast.unparse never fails on a tree that ast.parse built, so the two
\* fallbacks of _safe_unparse are not taken
_safe_unparse(node) == unparse(node)

\* ast.parse(s, mode="eval").body: the expression whose source text is s,
\* None when s is no expression (SyntaxError)
parse_eval(s) ==
    IF \E e \in ExprUniverse : unparse(e) = s
    THEN Some(CHOOSE e \in ExprUniverse : unparse(e) = s)
    ELSE None

_PRIMITIVE_TYPES == {"int", "str", "float", "bool", "dict", "list", "set", "tuple", "None"}

\* _TypeNameVisitor: visit_Name, visit_Attribute (which does not descend into
\* its value), visit_Constant (a string is parsed and visited), and
\* generic_visit for every other node
RECURSIVE _extract_type_names(_)
_extract_type_names(node) ==
    CASE node.k = "Name" -> {node.id}
      [] node.k = "Attribute" -> {node.attr}
      [] node.k = "Constant" ->
            IF node.isstr /\ parse_eval(node.value) # None
            THEN _extract_type_names(parse_eval(node.value)[1])
            ELSE {}
      [] node.k = "Subscript" ->
            _extract_type_names(node.value) \cup _extract_type_names(node.slice)
      [] node.k = "Call" -> _extract_type_names(node.func)

_extract_type_names_from_str(type_str) ==
    IF parse_eval(type_str) = None THEN {} ELSE _extract_type_names(parse_eval(type_str)[1])

_infer_type_from_value(value) ==
    IF value.k = "Call" THEN Some(_safe_unparse(value.func)) ELSE None

_get_self_attr_name(target) ==
    IF target.k = "Attribute" /\ target.value.k = "Name" /\ target.value.id = "self"
    THEN Some(target.attr)
    ELSE None

(***************************************************************************)
(* The data model (models.py).                                             *)
(***************************************************************************)
FunctionInfo(name, lineno, decorators) ==
    [name |-> name, lineno |-> lineno, decorators |-> decorators]

AttributeInfo(name, type, lineno, is_instance, declared_in_init) ==
    [name |-> name, type |-> type, lineno |-> lineno, is_instance |-> is_instance,
     declared_in_init |-> declared_in_init]

CompositionInfo(owner, attribute, target, lineno, kind) ==
    [owner |-> owner, attribute |-> attribute, target |-> target, lineno |-> lineno,
     kind |-> kind]

ClassInfo(name, bases, lineno) ==
    [name |-> name, bases |-> bases, init |-> None, methods |-> <<>>,
     attributes |-> <<>>, compositions |-> <<>>, lineno |-> lineno]

\* ModuleInfo with the attributes parse_file sets on it; an attribute that
\* was not set is None
ModuleInfo(p, classes, functions, imports) ==
    [path |-> p, classes |-> classes, functions |-> functions, imports |-> imports,
     source_encoding |-> None, source_used_fallback |-> None, source_error |-> None,
     parse_error |-> None]

ProjectModel(ms) == [modules |-> ms]

(***************************************************************************)
(* _ModuleVisitor.  A ClassInfo on _class_stack is its index in `classes`  *)
(* (the list is append-only, so the index is the object's identity).       *)
(***************************************************************************)
NewVisitor ==
    [imports |-> <<>>, functions |-> <<>>, classes |-> <<>>,
     _class_stack |-> <<>>, _function_depth |-> 0, _function_stack |-> <<>>,
     _seen_attrs |-> {}, _seen_comps |-> {}]

_in_method_scope(v) == v._function_stack # <<>>

\* mutant: inside __init__ at any depth, not only innermost
_is_in_init_any_depth(v) ==
    \E n \in 1..Len(v._function_stack) : v._function_stack[n] = "__init__"

_is_in_init(v) == v._function_stack # <<>> /\ Last(v._function_stack) = "__init__"

_add_instance_attr(v, cls, name, type_str, lineno) ==
    LET key == <<v.classes[cls].name, name, TRUE>> IN
    IF key \in v._seen_attrs
    THEN v
    ELSE [v EXCEPT !._seen_attrs = @ \cup {key},
                   !.classes[cls].attributes =
                       Append(@, AttributeInfo(name, type_str, lineno, TRUE, _is_in_init(v)))]

_add_class_attr(v, cls, name, type_str, lineno) ==
    LET key == <<v.classes[cls].name, name, FALSE>> IN
    IF key \in v._seen_attrs
    THEN v
    ELSE [v EXCEPT !._seen_attrs = @ \cup {key},
                   !.classes[cls].attributes =
                       Append(@, AttributeInfo(name, type_str, lineno, FALSE, FALSE))]

\* mutant: no test of the target against _PRIMITIVE_TYPES
_add_composition_primitives(v, cls, attr, target, lineno, kind) ==
    LET key == <<v.classes[cls].name, attr, target, kind>> IN
    IF key \in v._seen_comps
    THEN v
    ELSE [v EXCEPT !._seen_comps = @ \cup {key},
                   !.classes[cls].compositions =
                       Append(@, CompositionInfo(v.classes[cls].name, attr, target,
                                                 lineno, kind))]

\* mutant: no test of the key against _seen_comps
_add_composition_again(v, cls, attr, target, lineno, kind) ==
    LET key == <<v.classes[cls].name, attr, target, kind>> IN
    IF target \in _PRIMITIVE_TYPES
    THEN v
    ELSE [v EXCEPT !._seen_comps = @ \cup {key},
                   !.classes[cls].compositions =
                       Append(@, CompositionInfo(v.classes[cls].name, attr, target,
                                                 lineno, kind))]

_add_composition(v, cls, attr, target, lineno, kind) ==
    LET key == <<v.classes[cls].name, attr, target, kind>> IN
    IF target \in _PRIMITIVE_TYPES
    THEN v
    ELSE IF key \in v._seen_comps
    THEN v
    ELSE [v EXCEPT !._seen_comps = @ \cup {key},
                   !.classes[cls].compositions =
                       Append(@, CompositionInfo(v.classes[cls].name, attr, target,
                                                 lineno, kind))]

\* `for t in <set of type names>: self._add_composition(...)`, the set
\* iterated in the order ts
RECURSIVE add_compositions(_, _, _, _, _, _)
add_compositions(v, cls, attr, ts, lineno, kind) ==
    IF ts = <<>>
    THEN v
    ELSE add_compositions(_add_composition(v, cls, attr, ts[1], lineno, kind),
                          cls, attr, Tail(ts), lineno, kind)

\* the orders in which a Python set S may be iterated
Orderings(S) ==
    {s \in [1..Cardinality(S) -> S] : \A x \in S : \E i \in 1..Cardinality(S) : s[i] = x}

\* the elements of the set S in the order in which `order` lists them
InOrder(order, S) == SelectSeq(order, LAMBDA t : t \in S)

\* mutant: __init__ is stored in init and in methods
_handle_function_like_init_method(v, node, lineno) ==
    LET func_info ==
            FunctionInfo(node.name, lineno,
                         [i \in 1..Len(node.decorator_list) |->
                             _safe_unparse(node.decorator_list[i])])
        current_class == Last(v._class_stack)
    IN  IF v._class_stack # <<>>
        THEN IF node.name = "__init__"
             THEN [v EXCEPT !.classes[current_class].init = Some(func_info),
                            !.classes[current_class].methods = Append(@, func_info)]
             ELSE [v EXCEPT !.classes[current_class].methods = Append(@, func_info)]
        ELSE IF v._function_depth = 0
        THEN [v EXCEPT !.functions = Append(@, func_info)]
        ELSE v

\* mutant: no test of _function_depth
_handle_function_like_any_depth(v, node, lineno) ==
    LET func_info ==
            FunctionInfo(node.name, lineno,
                         [i \in 1..Len(node.decorator_list) |->
                             _safe_unparse(node.decorator_list[i])])
        current_class == Last(v._class_stack)
    IN  IF v._class_stack # <<>>
        THEN IF node.name = "__init__"
             THEN [v EXCEPT !.classes[current_class].init = Some(func_info)]
             ELSE [v EXCEPT !.classes[current_class].methods = Append(@, func_info)]
        ELSE [v EXCEPT !.functions = Append(@, func_info)]

\* mutant: a method goes to the outermost open class
_handle_function_like_outermost_class(v, node, lineno) ==
    LET func_info ==
            FunctionInfo(node.name, lineno,
                         [i \in 1..Len(node.decorator_list) |->
                             _safe_unparse(node.decorator_list[i])])
        current_class == v._class_stack[1]
    IN  IF v._class_stack # <<>>
        THEN IF node.name = "__init__"
             THEN [v EXCEPT !.classes[current_class].init = Some(func_info)]
             ELSE [v EXCEPT !.classes[current_class].methods = Append(@, func_info)]
        ELSE IF v._function_depth = 0
        THEN [v EXCEPT !.functions = Append(@, func_info)]
        ELSE v

_handle_function_like(v, node, lineno) ==
    LET func_info ==
            FunctionInfo(node.name, lineno,
                         [i \in 1..Len(node.decorator_list) |->
                             _safe_unparse(node.decorator_list[i])])
        current_class == Last(v._class_stack)
    IN  IF v._class_stack # <<>>
        THEN IF node.name = "__init__"
             THEN [v EXCEPT !.classes[current_class].init = Some(func_info)]
             ELSE [v EXCEPT !.classes[current_class].methods = Append(@, func_info)]
        ELSE IF v._function_depth = 0
        THEN [v EXCEPT !.functions = Append(@, func_info)]
        ELSE v

\* mutant: a class inside an open class is not listed; its body counts as
\* the body of the open class
visit_ClassDef_enter_merged(v, node, lineno) ==
    LET bases == [i \in 1..Len(node.bases) |-> _safe_unparse(node.bases[i])]
        class_info == ClassInfo(node.name, bases, lineno)
    IN  IF v._class_stack # <<>>
        THEN [v EXCEPT !._class_stack = Append(@, Last(v._class_stack))]
        ELSE [v EXCEPT !.classes = Append(@, class_info),
                       !._class_stack = Append(@, Len(v.classes) + 1)]

\* visit_ClassDef up to its generic_visit
visit_ClassDef_enter(v, node, lineno) ==
    LET bases == [i \in 1..Len(node.bases) |-> _safe_unparse(node.bases[i])]
        class_info == ClassInfo(node.name, bases, lineno)
    IN  [v EXCEPT !.classes = Append(@, class_info),
                  !._class_stack = Append(@, Len(v.classes) + 1)]

\* visit_ClassDef after its generic_visit
visit_ClassDef_exit(v) == [v EXCEPT !._class_stack = Pop(@)]

\* visit_FunctionDef and visit_AsyncFunctionDef up to their generic_visit
visit_FunctionDef_enter(v, node, lineno) ==
    LET v1 == _handle_function_like(v, node, lineno)
    IN  [v1 EXCEPT !._function_stack = Append(@, node.name),
                   !._function_depth = @ + 1]

\* visit_FunctionDef and visit_AsyncFunctionDef after their generic_visit
visit_FunctionDef_exit(v) ==
    [v EXCEPT !._function_depth = @ - 1, !._function_stack = Pop(@)]

visit_AnnAssign_node(v, node, lineno, order) ==
    IF v._class_stack = <<>>
    THEN v
    ELSE
    LET current_class == Last(v._class_stack)
        self_attr == _get_self_attr_name(node.target)
        anno_str == Some(_safe_unparse(node.annotation))
        names == InOrder(order, _extract_type_names(node.annotation))
        v1 == IF self_attr # None /\ _in_method_scope(v)
              THEN add_compositions(
                       _add_instance_attr(v, current_class, self_attr[1], anno_str, lineno),
                       current_class, self_attr[1], names, lineno, "aggregation")
              ELSE v
    IN  IF node.target.k = "Name" /\ ~_in_method_scope(v1)
        THEN add_compositions(
                 _add_class_attr(v1, current_class, node.target.id, anno_str, lineno),
                 current_class, node.target.id, names, lineno, "aggregation")
        ELSE v1

\* the body of `for tgt in node.targets` of visit_Assign for one target
visit_Assign_target(v, tgt, value, lineno, order, current_class, in_method) ==
    LET attr == _get_self_attr_name(tgt)
        inferred == _infer_type_from_value(value)
        names == IF inferred = None
                 THEN <<>>
                 ELSE InOrder(order, _extract_type_names_from_str(inferred[1]))
    IN  IF attr # None /\ in_method
        THEN add_compositions(
                 _add_instance_attr(v, current_class, attr[1], inferred, lineno),
                 current_class, attr[1], names, lineno, "composition")
        ELSE IF tgt.k = "Name" /\ ~in_method
        THEN add_compositions(
                 _add_class_attr(v, current_class, tgt.id, inferred, lineno),
                 current_class, tgt.id, names, lineno, "composition")
        ELSE v

RECURSIVE visit_Assign_targets(_, _, _, _, _, _, _)
visit_Assign_targets(v, targets, value, lineno, order, current_class, in_method) ==
    IF targets = <<>>
    THEN v
    ELSE visit_Assign_targets(
             visit_Assign_target(v, targets[1], value, lineno, order, current_class,
                                 in_method),
             Tail(targets), value, lineno, order, current_class, in_method)

visit_Assign_node(v, node, lineno, order) ==
    IF v._class_stack = <<>>
    THEN v
    ELSE visit_Assign_targets(v, node.targets, node.value, lineno, order,
                              Last(v._class_stack), _in_method_scope(v))

\* the line visit_Import appends for one alias
ImportLine(alias) ==
    IF alias.asname # None
    THEN <<"import", alias.name, "as", alias.asname[1]>>
    ELSE <<"import", alias.name>>

visit_Import_node(v, node) ==
    [v EXCEPT !.imports = @ \o [i \in 1..Len(node.names) |-> ImportLine(node.names[i])]]

\* "." * level + (module or "")
ImportFromModule(node) ==
    IF node.level # 0 \/ node.module # None
    THEN [i \in 1..node.level |-> "."] \o node.module
    ELSE <<>>

\* the line visit_ImportFrom appends for one alias
ImportFromLine(node, alias) ==
    IF alias.asname # None
    THEN <<"from">> \o ImportFromModule(node) \o <<"import", alias.name, "as", alias.asname[1]>>
    ELSE <<"from">> \o ImportFromModule(node) \o <<"import", alias.name>>

visit_ImportFrom_node(v, node) ==
    [v EXCEPT !.imports =
        @ \o [i \in 1..Len(node.names) |-> ImportFromLine(node, node.names[i])]]

(***************************************************************************)
(* The syntax-tree nodes the files are made of.  Every statement is on a   *)
(* line of its own, so the lineno of a node is its position in visit       *)
(* order.                                                                  *)
(***************************************************************************)
ClassDefNodes ==
    {[kind |-> "ClassDef", name |-> "A", bases |-> <<>>],
     [kind |-> "ClassDef", name |-> "B", bases |-> <<Attribute(Name("pkg"), "A")>>]}

FunctionDefNodes ==
    {[kind |-> "FunctionDef", name |-> "__init__", decorator_list |-> <<>>],
     [kind |-> "FunctionDef", name |-> "f", decorator_list |-> <<Name("staticmethod")>>]}

AsyncFunctionDefNodes ==
    {[kind |-> "AsyncFunctionDef", name |-> "__init__", decorator_list |-> <<>>],
     [kind |-> "AsyncFunctionDef", name |-> "g", decorator_list |-> <<>>]}

SelfAttr(a) == Attribute(Name("self"), a)

AssignNodes ==
    {\* self.x = Foo()
     [kind |-> "Assign", targets |-> <<SelfAttr("x")>>, value |-> Call(Name("Foo"))],
     \* self.x = b
     [kind |-> "Assign", targets |-> <<SelfAttr("x")>>, value |-> Name("b")],
     \* self.y = v = pkg.int()
     [kind |-> "Assign", targets |-> <<SelfAttr("y"), Name("v")>>,
      value |-> Call(Attribute(Name("pkg"), "int"))]}

AnnAssignNodes ==
    {\* self.x: Foo = Foo()
     [kind |-> "AnnAssign", target |-> SelfAttr("x"), annotation |-> Name("Foo"),
      value |-> Some(Call(Name("Foo")))],
     \* self.y: int
     [kind |-> "AnnAssign", target |-> SelfAttr("y"), annotation |-> Name("int"),
      value |-> None],
     \* v: list['pkg.Foo']
     [kind |-> "AnnAssign", target |-> Name("v"),
      annotation |-> Subscript(Name("list"), StrConstant(<<"pkg", ".", "Foo">>)),
      value |-> None]}

ImportNodes ==
    {\* import os as o, sys
     [kind |-> "Import",
      names |-> <<[name |-> "os", asname |-> Some("o")], [name |-> "sys", asname |-> None]>>]}

ImportFromNodes ==
    {\* from ..pkg import a
     [kind |-> "ImportFrom", module |-> <<"pkg">>, level |-> 2,
      names |-> <<[name |-> "a", asname |-> None]>>]}

Vocabulary ==
    ClassDefNodes \cup FunctionDefNodes \cup AsyncFunctionDefNodes \cup AssignNodes
        \cup AnnAssignNodes \cup ImportNodes \cup ImportFromNodes

\* class A, def f, self.x = Foo()
DupVocabulary ==
    {[kind |-> "ClassDef", name |-> "A", bases |-> <<>>],
     [kind |-> "FunctionDef", name |-> "f", decorator_list |-> <<Name("staticmethod")>>],
     [kind |-> "Assign", targets |-> <<SelfAttr("x")>>, value |-> Call(Name("Foo"))]}

\* class A, def f, def __init__, self.x = b
InitVocabulary ==
    {[kind |-> "ClassDef", name |-> "A", bases |-> <<>>],
     [kind |-> "FunctionDef", name |-> "f", decorator_list |-> <<Name("staticmethod")>>],
     [kind |-> "FunctionDef", name |-> "__init__", decorator_list |-> <<>>],
     [kind |-> "Assign", targets |-> <<SelfAttr("x")>>, value |-> Name("b")]}

\* class A, def f, self.x: Foo = Foo(), self.x = Foo()
EdgeVocabulary ==
    {[kind |-> "ClassDef", name |-> "A", bases |-> <<>>],
     [kind |-> "FunctionDef", name |-> "f", decorator_list |-> <<Name("staticmethod")>>],
     [kind |-> "AnnAssign", target |-> SelfAttr("x"), annotation |-> Name("Foo"),
      value |-> Some(Call(Name("Foo")))],
     [kind |-> "Assign", targets |-> <<SelfAttr("x")>>, value |-> Call(Name("Foo"))]}

\* the statements of a file of vocabulary w
NodesOf(w) ==
    CASE w = "all" -> Vocabulary
      [] w = "dup" -> DupVocabulary
      [] w = "init" -> InitVocabulary
      [] w = "edge" -> EdgeVocabulary

(***************************************************************************)
(* Paths and _read_source_best_effort.                                     *)
(***************************************************************************)
Paths == {"a.py", "b.py", "~nouser/c.py"}

\* Path(p).expanduser() raises RuntimeError for the home of an unknown user
Resolvable(p) == p # "~nouser/c.py"

\* Path(p).expanduser().resolve()
resolve(p) == "/cwd/" \o p

\* the results of _read_source_best_effort: read_python_source succeeded; it
\* raised and read_text succeeded; both raised (the text is then empty)
OkLoad == [has_text |-> TRUE, encoding |-> Some("utf-8"), used_fallback |-> FALSE, error |-> None]

SourceLoads ==
    {[has_text |-> TRUE, encoding |-> Some("utf-8"), used_fallback |-> FALSE, error |-> None],
     [has_text |-> TRUE, encoding |-> Some("utf-8"), used_fallback |-> TRUE,
      error |-> Some("text_loader_failed")],
     [has_text |-> FALSE, encoding |-> None, used_fallback |-> TRUE,
      error |-> Some("read_failed")]}

(***************************************************************************)
(* CodeParser.                                                             *)
(***************************************************************************)
\* mutant: the collections of the visitor are kept after an exception
build_module_keeps(v, p, s, parse_error) ==
    [ModuleInfo(p, v.classes, v.functions, v.imports)
        EXCEPT !.source_encoding = Some(s.encoding),
               !.source_used_fallback = Some(s.used_fallback),
               !.source_error = s.error,
               !.parse_error = parse_error]

\* parse_file from the construction of the ModuleInfo to its return
build_module(v, p, s, parse_error) ==
    [ModuleInfo(p,
                IF parse_error = None THEN v.classes ELSE <<>>,
                IF parse_error = None THEN v.functions ELSE <<>>,
                IF parse_error = None THEN v.imports ELSE <<>>)
        EXCEPT !.source_encoding = Some(s.encoding),
               !.source_used_fallback = Some(s.used_fallback),
               !.source_error = s.error,
               !.parse_error = parse_error]

\* the except branch of parse_files: the module it appends, None when
\* resolving the path raises again
parse_files_except(p) ==
    IF Resolvable(p)
    THEN Some([ModuleInfo(resolve(p), <<>>, <<>>, <<>>)
                  EXCEPT !.parse_error = Some("UnhandledError")])
    ELSE None

NoOutcome == [kind |-> "none", collected |-> FALSE]

Collected(v) == v.classes # <<>> \/ v.functions # <<>> \/ v.imports # <<>>

\* the loop of parse_files goes on with the modules ms: to the next path,
\* or to `return ProjectModel(modules=modules)` after the last one
LoopNext(ms) ==
    /\ modules' = ms
    /\ idx' = idx + 1
    /\ IF idx + 1 > Len(paths)
       THEN project' = Some(ProjectModel(ms)) /\ pc' = "returned"
       ELSE project' = project /\ pc' = "loop"

\* `for p in paths`: the next path; parse_file resolves it, reads the source
\* and builds a visitor, or raises, and then the except branch runs
parse_files_iter ==
    /\ pc = "loop"
    /\ idx <= Len(paths)
    /\ IF Resolvable(paths[idx])
       THEN /\ src' = loads[idx]
            /\ path' = resolve(paths[idx])
            /\ visitor' = NewVisitor
            /\ frames' = <<>>
            /\ tree' = <<>>
            /\ outcome' = NoOutcome
            /\ pc' = "visit"
            /\ UNCHANGED <<idx, modules, project>>
       ELSE /\ IF parse_files_except(paths[idx]) = None
               THEN pc' = "raised" /\ UNCHANGED <<idx, modules, project>>
               ELSE LoopNext(Append(modules, parse_files_except(paths[idx])[1]))
            /\ outcome' = [kind |-> "raised", collected |-> FALSE]
            /\ UNCHANGED <<path, src, visitor, frames, tree>>
    /\ UNCHANGED <<beside_parser, paths, loads, vocab, budget>>

\* parse_file returns to parse_files, which appends the module.  After an
\* exception the visitor and the tree are not looked at again.
Return(parse_error, kind) ==
    /\ LoopNext(Append(modules, build_module(visitor, path, src, parse_error)))
    /\ outcome' = [kind |-> kind, collected |-> Collected(visitor)]
    /\ IF parse_error = None
       THEN UNCHANGED <<visitor, frames, tree>>
       ELSE visitor' = NewVisitor /\ frames' = <<>> /\ tree' = <<>>
    /\ UNCHANGED <<beside_parser, paths, loads, vocab, budget, path, src>>

\* ast.parse raises: a SyntaxError, or another exception (a ValueError, a
\* RecursionError, a MemoryError)
ast_parse_raises ==
    /\ pc = "visit"
    /\ tree = <<>>
    /\ src.has_text
    /\ \E e \in {"SyntaxError", "ParseError"} : Return(Some(e), e)

\* visitor.visit(tree) raises midway (a RecursionError on a deep tree, a
\* ValueError of ast.parse on a forward reference)
visit_raises ==
    /\ pc = "visit"
    /\ tree # <<>>
    /\ Return(Some("ParseError"), "ParseError")

\* visitor.visit(tree) returns
parse_file_return ==
    /\ pc = "visit"
    /\ frames = <<>>
    /\ Return(None, "ok")

\* parse_files of no path at all: the loop ends at once
parse_files_return ==
    /\ pc = "loop"
    /\ idx > Len(paths)
    /\ project' = Some(ProjectModel(modules))
    /\ pc' = "returned"
    /\ UNCHANGED <<beside_parser, paths, loads, vocab, budget, idx, modules, path, src, visitor, frames, tree, outcome>>

(***************************************************************************)
(* The traversal: NodeVisitor.visit of the next node of the tree, a child  *)
(* of the innermost open definition.                                       *)
(***************************************************************************)
CanVisit == pc = "visit" /\ budget > 0 /\ src.has_text

lineno == Len(tree) + 1

Parent == IF frames = <<>> THEN 0 ELSE Last(frames)

Visited(node, v, open) ==
    /\ visitor' = v
    /\ tree' = Append(tree, [node |-> node, parent |-> Parent])
    /\ frames' = IF open THEN Append(frames, lineno) ELSE frames
    /\ budget' = budget - 1
    /\ UNCHANGED <<beside_parser, paths, loads, vocab, pc, idx, modules, project, path, src, outcome>>

visit_ClassDef ==
    /\ CanVisit
    /\ \E node \in ClassDefNodes \cap NodesOf(vocab) :
          Visited(node, visit_ClassDef_enter(visitor, node, lineno), TRUE)

visit_FunctionDef ==
    /\ CanVisit
    /\ \E node \in FunctionDefNodes \cap NodesOf(vocab) :
          Visited(node, visit_FunctionDef_enter(visitor, node, lineno), TRUE)

visit_AsyncFunctionDef ==
    /\ CanVisit
    /\ \E node \in AsyncFunctionDefNodes \cap NodesOf(vocab) :
          Visited(node, visit_FunctionDef_enter(visitor, node, lineno), TRUE)

\* generic_visit of the innermost open definition returns
generic_visit_return ==
    /\ pc = "visit"
    /\ frames # <<>>
    /\ visitor' = IF tree[Last(frames)].node.kind = "ClassDef"
                  THEN visit_ClassDef_exit(visitor)
                  ELSE visit_FunctionDef_exit(visitor)
    /\ frames' = Pop(frames)
    /\ UNCHANGED <<beside_parser, paths, loads, vocab, budget, pc, idx, modules, project, path, src, tree, outcome>>

visit_AnnAssign ==
    /\ CanVisit
    /\ \E node \in AnnAssignNodes \cap NodesOf(vocab) :
          \E order \in Orderings(_extract_type_names(node.annotation)) :
              Visited(node, visit_AnnAssign_node(visitor, node, lineno, order), FALSE)

\* the type names the loops of visit_Assign iterate over
AssignTypeNames(node) ==
    IF _infer_type_from_value(node.value) = None
    THEN {}
    ELSE _extract_type_names_from_str(_infer_type_from_value(node.value)[1])

visit_Assign ==
    /\ CanVisit
    /\ \E node \in AssignNodes \cap NodesOf(vocab) :
          \E order \in Orderings(AssignTypeNames(node)) :
              Visited(node, visit_Assign_node(visitor, node, lineno, order), FALSE)

visit_Import ==
    /\ CanVisit
    /\ \E node \in ImportNodes \cap NodesOf(vocab) : Visited(node, visit_Import_node(visitor, node), FALSE)

visit_ImportFrom ==
    /\ CanVisit
    /\ \E node \in ImportFromNodes \cap NodesOf(vocab) : Visited(node, visit_ImportFrom_node(visitor, node), FALSE)

(***************************************************************************)
(* The diagram generators (diagram_generator.py and                       *)
(* diagram_generator_mermaid.py).  Here a name, a type text or a path is   *)
(* a sequence of tokens, "" is <<>>, a line is the sequence of the tokens  *)
(* it is formatted from, and a text is the sequence of its lines.          *)
(* _short_class_name, _is_public and _class_score are defined in both      *)
(* files, with the same body.                                              *)
(***************************************************************************)
\* the tokens that strings are compared by, in ascending order of str.__lt__
Alphabet == <<" ", "*--", ".", "A", "B", "C", "[", "]", "o--", "object", "x", "y">>

Rank(t) == CHOOSE n \in 1..Len(Alphabet) : Alphabet[n] = t

\* s < t for two strings
RECURSIVE StrLess(_, _)
StrLess(s, t) ==
    IF t = <<>> THEN FALSE
    ELSE IF s = <<>> THEN TRUE
    ELSE IF s[1] = t[1] THEN StrLess(Tail(s), Tail(t))
    ELSE Rank(s[1]) < Rank(t[1])

\* a < b for two tuples of strings of the same length
RECURSIVE TupleLess(_, _)
TupleLess(a, b) ==
    IF a = <<>> THEN FALSE
    ELSE IF a[1] = b[1] THEN TupleLess(Tail(a), Tail(b))
    ELSE StrLess(a[1], b[1])

\* mutant: the greatest tuple first
RECURSIVE sorted_descending(_)
sorted_descending(S) ==
    IF S = {} THEN <<>>
    ELSE LET greatest == CHOOSE a \in S : \A b \in S \ {a} : TupleLess(b, a)
         IN  <<greatest>> \o sorted_descending(S \ {greatest})

\* sorted(S) for a set S of tuples of strings
RECURSIVE sorted(_)
sorted(S) ==
    IF S = {} THEN <<>>
    ELSE LET least == CHOOSE a \in S : \A b \in S \ {a} : TupleLess(a, b)
         IN  <<least>> \o sorted(S \ {least})

RECURSIVE lstrip(_)
lstrip(s) == IF s # <<>> /\ s[1] = " " THEN lstrip(Tail(s)) ELSE s

RECURSIVE rstrip(_)
rstrip(s) == IF s # <<>> /\ Last(s) = " " THEN rstrip(Pop(s)) ELSE s

\* str.strip()
strip(s) == rstrip(lstrip(s))

\* the positions of token t in s
Positions(s, t) == {n \in 1..Len(s) : s[n] = t}

Least(S) == CHOOSE n \in S : \A m \in S : n <= m
Greatest(S) == CHOOSE n \in S : \A m \in S : n >= m

\* mutant: no shortening at all
_short_class_name_raw(raw) == raw

_short_class_name(raw) ==
    LET name == strip(raw)
        head == IF "[" \in Range(name)
                THEN SubSeq(name, 1, Least(Positions(name, "[")) - 1)
                ELSE name
    IN  IF name = <<>> THEN <<>>
        ELSE IF "." \in Range(head)
        THEN SubSeq(head, Greatest(Positions(head, ".")) + 1, Len(head))
        ELSE head

\* mutant: only a single leading underscore makes a name private
_is_public_dunder(name) ==
    name # <<>> /\ ~(name[1] = "_" /\ (Len(name) < 2 \/ name[2] # "_"))

_is_public(name) == name # <<>> /\ name[1] # "_"

\* Path(path_str).stem: the last component of the path without its suffix
_module_to_package_name(path_str) ==
    LET file == IF "/" \in Range(path_str)
                THEN SubSeq(path_str, Greatest(Positions(path_str, "/")) + 1, Len(path_str))
                ELSE path_str
    IN  IF Len(file) > 1 /\ Last(file) = ".py" THEN Pop(file) ELSE file

_class_score(cls) ==
    Len(cls.methods) * 2 + Len(cls.bases) * 3 + Len(cls.compositions) * 3

\* s without its n-th element
Without(s, n) == SubSeq(s, 1, n - 1) \o SubSeq(s, n + 1, Len(s))

\* mutant: elements of equal key come out in reverse order
RECURSIVE sort_reverse_unstable(_, _)
sort_reverse_unstable(scores, positions) ==
    IF scores = <<>> THEN <<>>
    ELSE LET n == CHOOSE n \in 1..Len(scores) :
                      /\ \A m \in 1..Len(scores) : scores[m] <= scores[n]
                      /\ \A m \in (n + 1)..Len(scores) : scores[m] < scores[n]
         IN  <<positions[n]>>
             \o sort_reverse_unstable(Without(scores, n), Without(positions, n))

\* list.sort(key=..., reverse=True) of a list whose keys are `scores`: the
\* old positions of the elements in their new order.  The sort is stable:
\* elements of equal key keep their order.
RECURSIVE sort_reverse(_, _)
sort_reverse(scores, positions) ==
    IF scores = <<>> THEN <<>>
    ELSE LET n == CHOOSE n \in 1..Len(scores) :
                      /\ \A m \in 1..Len(scores) : scores[m] <= scores[n]
                      /\ \A m \in 1..(n - 1) : scores[m] < scores[n]
         IN  <<positions[n]>> \o sort_reverse(Without(scores, n), Without(positions, n))

\* the concatenation of the sequences of a sequence
RECURSIVE Flatten(_)
Flatten(ss) == IF ss = <<>> THEN <<>> ELSE ss[1] \o Flatten(Tail(ss))

\* the elements of s in order, each once
RECURSIVE Distinct(_)
Distinct(s) ==
    IF s = <<>> THEN <<>>
    ELSE LET d == Distinct(Pop(s))
         IN  IF Last(s) \in Range(d) THEN d ELSE Append(d, Last(s))

(***************************************************************************)
(* DiagramGenerator.generate_class_diagram (PlantUML).                     *)
(***************************************************************************)
\* `all_classes` after the loop over project.modules: (module, cls) pairs
plantuml_collect(proj) ==
    Flatten([m \in 1..Len(proj.modules) |->
                [c \in 1..Len(proj.modules[m].classes) |->
                    [module |-> proj.modules[m], cls |-> proj.modules[m].classes[c]]]])

\* `all_classes` after "sort & cut top-N"
plantuml_select(all_classes, max_classes) ==
    IF max_classes # 0 /\ max_classes > 0
    THEN LET order == sort_reverse([k \in 1..Len(all_classes) |-> _class_score(all_classes[k].cls)],
                                   [k \in 1..Len(all_classes) |-> k])
             ranked == [k \in 1..Len(order) |-> all_classes[order[k]]]
         IN  SubSeq(ranked, 1, IF max_classes < Len(ranked) THEN max_classes ELSE Len(ranked))
    ELSE all_classes

\* the lines render_class appends
render_class(cls, public_only) ==
    LET Shown(method) == ~(public_only /\ ~_is_public(method.name))
        methods == SelectSeq(cls.methods, Shown)
    IN  << <<"class ">> \o cls.name \o <<" {">> >>
        \o [m \in 1..Len(methods) |-> <<"    + ">> \o methods[m].name \o <<"()">>]
        \o << <<"}">>, <<>> >>

\* "render classes": the package blocks of by_module, in the order of the
\* first class of each module path, or the classes one after another
plantuml_render_classes(all_classes, public_only, group_by_module) ==
    IF group_by_module
    THEN LET module_paths == Distinct([k \in 1..Len(all_classes) |-> all_classes[k].module.path])
             InModule(module_path) ==
                 LET Here(mc) == mc.module.path = module_path
                 IN  SelectSeq(all_classes, Here)
             Package(module_path) ==
                 << <<"package \"">> \o _module_to_package_name(module_path) \o <<"\" {">> >>
                 \o Flatten([k \in 1..Len(InModule(module_path)) |->
                                render_class(InModule(module_path)[k].cls, public_only)])
                 \o << <<"}">>, <<>> >>
         IN  Flatten([k \in 1..Len(module_paths) |-> Package(module_paths[k])])
    ELSE Flatten([k \in 1..Len(all_classes) |-> render_class(all_classes[k].cls, public_only)])

\* the set `inheritance` of (child, parent)
plantuml_inheritance(all_classes, selected_class_names) ==
    {e \in UNION {{<<mc.cls.name, _short_class_name(mc.cls.bases[j])>> :
                       j \in 1..Len(mc.cls.bases)} : mc \in Range(all_classes)} :
        /\ ~(e[2] = <<>> \/ e[2] = <<"object">>)
        /\ e[2] \in selected_class_names}

\* mutant: the target of a relation is not looked up in selected_class_names
plantuml_relations_any_target(all_classes, selected_class_names) ==
    {e \in UNION {{<<IF rel.owner # <<>> THEN rel.owner ELSE mc.cls.name,
                     IF rel.kind = "composition" THEN <<"*--">> ELSE <<"o--">>,
                     _short_class_name(rel.target),
                     rel.attribute>> :
                       rel \in Range(mc.cls.compositions)} : mc \in Range(all_classes)} :
        e[1] \in selected_class_names}

\* the set `relations` of (owner, arrow, target, label)
plantuml_relations(all_classes, selected_class_names) ==
    {e \in UNION {{<<IF rel.owner # <<>> THEN rel.owner ELSE mc.cls.name,
                     IF rel.kind = "composition" THEN <<"*--">> ELSE <<"o--">>,
                     _short_class_name(rel.target),
                     rel.attribute>> :
                       rel \in Range(mc.cls.compositions)} : mc \in Range(all_classes)} :
        ~(e[1] \notin selected_class_names \/ e[3] \notin selected_class_names)}

\* mutant: the text ends after the classes
DiagramGenerator_generate_class_diagram_open(proj, o) ==
    << <<"@startuml">>, <<>> >>
    \o plantuml_render_classes(plantuml_select(plantuml_collect(proj), o.max_classes),
                               o.public_only, o.group_by_module)

\* the text generate_class_diagram returns for the options o
DiagramGenerator_generate_class_diagram(proj, o) ==
    LET all_classes == plantuml_select(plantuml_collect(proj), o.max_classes)
        selected_class_names == {all_classes[k].cls.name : k \in 1..Len(all_classes)}
        lines == << <<"@startuml">>, <<>> >>
                 \o plantuml_render_classes(all_classes, o.public_only, o.group_by_module)
        inheritance == sorted(plantuml_inheritance(all_classes, selected_class_names))
        relations == sorted(plantuml_relations(all_classes, selected_class_names))
    IN  IF ~o.show_relations
        THEN lines \o << <<"@enduml">> >>
        ELSE lines
             \o [k \in 1..Len(inheritance) |->
                    inheritance[k][1] \o <<" --|> ">> \o inheritance[k][2]]
             \o [k \in 1..Len(relations) |->
                    relations[k][1] \o <<" ">> \o relations[k][2] \o <<" ">> \o relations[k][3]
                    \o (IF relations[k][4] # <<>>
                        THEN <<" : \"">> \o relations[k][4] \o <<"\"">>
                        ELSE <<>>)]
             \o << <<>>, <<"@enduml">> >>

(***************************************************************************)
(* MermaidDiagramGenerator.generate_class_diagram.                         *)
(***************************************************************************)
\* `all_classes` after the loop over project.modules
mermaid_collect(proj) ==
    Flatten([m \in 1..Len(proj.modules) |-> proj.modules[m].classes])

\* mutant: the first max_classes classes, unsorted
mermaid_select_unsorted(all_classes, max_classes) ==
    IF max_classes # 0 /\ max_classes > 0
    THEN SubSeq(all_classes, 1,
                IF max_classes < Len(all_classes) THEN max_classes ELSE Len(all_classes))
    ELSE all_classes

\* `all_classes` after "apply top-N limit if requested"
mermaid_select(all_classes, max_classes) ==
    IF max_classes # 0 /\ max_classes > 0
    THEN LET order == sort_reverse([k \in 1..Len(all_classes) |-> _class_score(all_classes[k])],
                                   [k \in 1..Len(all_classes) |-> k])
             ranked == [k \in 1..Len(order) |-> all_classes[order[k]]]
         IN  SubSeq(ranked, 1, IF max_classes < Len(ranked) THEN max_classes ELSE Len(ranked))
    ELSE all_classes

\* "render class stubs and methods" for one class
mermaid_render_class(cls, public_only) ==
    LET Shown(method) == ~(public_only /\ ~_is_public(method.name))
        methods == SelectSeq(cls.methods, Shown)
    IN  << <<"class ">> \o cls.name >>
        \o [m \in 1..Len(methods) |-> cls.name \o <<" : +">> \o methods[m].name \o <<"()">>]

\* the set `inheritance` of (child, parent)
mermaid_inheritance(all_classes, class_names) ==
    {e \in UNION {{<<cls.name, _short_class_name(cls.bases[j])>> :
                       j \in 1..Len(cls.bases)} : cls \in Range(all_classes)} :
        /\ ~(e[2] = <<>> \/ e[2] = <<"object">>)
        /\ e[2] \in class_names}

\* the set `relations` of (owner, arrow, target, label)
mermaid_relations(all_classes, class_names) ==
    {e \in UNION {{<<IF rel.owner # <<>> THEN rel.owner ELSE cls.name,
                     IF rel.kind = "composition" THEN <<"*--">> ELSE <<"o--">>,
                     _short_class_name(rel.target),
                     rel.attribute>> :
                       rel \in Range(cls.compositions)} : cls \in Range(all_classes)} :
        ~(e[1] \notin class_names \/ e[3] \notin class_names)}

\* the text generate_class_diagram returns for the options o
MermaidDiagramGenerator_generate_class_diagram(proj, o) ==
    LET all_classes == mermaid_select(mermaid_collect(proj), o.max_classes)
        class_names == {all_classes[k].name : k \in 1..Len(all_classes)}
        lines == << <<"classDiagram">> >>
                 \o Flatten([k \in 1..Len(all_classes) |->
                                mermaid_render_class(all_classes[k], o.public_only)])
        inheritance == sorted(mermaid_inheritance(all_classes, class_names))
        relations == sorted(mermaid_relations(all_classes, class_names))
    IN  IF ~o.show_relations
        THEN lines
        ELSE lines
             \o [k \in 1..Len(inheritance) |->
                    inheritance[k][2] \o <<" <|-- ">> \o inheritance[k][1]]
             \o [k \in 1..Len(relations) |->
                    relations[k][1] \o <<" ">> \o relations[k][2] \o <<" ">> \o relations[k][3]
                    \o (IF relations[k][4] # <<>>
                        THEN <<" : ">> \o relations[k][4]
                        ELSE <<>>)]

(***************************************************************************)
(* The projects and options the generators are called with.                *)
(***************************************************************************)
Method(name) == FunctionInfo(name, 1, <<>>)

Relation(owner, attribute, target, kind) == CompositionInfo(owner, attribute, target, 1, kind)

DiagramClass(name, bases, methods, compositions) ==
    [ClassInfo(name, bases, 1) EXCEPT !.methods = methods, !.compositions = compositions]

\* classes A, B and C (two of that name), with bases and edge targets that
\* are qualified, generic, padded, `object` or empty, edges whose owner is
\* another class, and edges that are listed twice
DiagramClasses ==
    {DiagramClass(<<"A">>, <<>>, <<Method(<<"m">>)>>,
                  <<Relation(<<>>, <<"x">>, <<"pkg", ".", "C">>, "composition")>>),
     DiagramClass(<<"B">>, << <<"pkg", ".", "A">>, <<"object">> >>,
                  <<Method(<<"_", "p">>), Method(<<"m">>)>>, <<>>),
     DiagramClass(<<"C">>, << <<"A", "[", "B", "]">> >>, <<>>,
                  <<Relation(<<"B">>, <<>>, <<"A">>, "aggregation")>>),
     DiagramClass(<<"C">>, <<>>, <<Method(<<"_", "_", "init", "_", "_">>)>>, <<>>),
     DiagramClass(<<"A">>, << <<" ", "B", " ">>, <<>> >>, <<>>, <<>>),
     DiagramClass(<<"B">>, <<>>, <<>>,
                  <<Relation(<<>>, <<"y">>, <<"C", "[", "A", "]">>, "aggregation"),
                    Relation(<<>>, <<"x">>, <<"A">>, "composition"),
                    Relation(<<>>, <<"y">>, <<"C", "[", "A", "]">>, "aggregation")>>)}

\* a project of no module, or of two modules that hold the classes cs: the
\* first `first` of them in src/a.py, the others in b.py
DiagramProject(cs, first) ==
    ProjectModel(<<ModuleInfo(<<"src", "/", "a", ".py">>, SubSeq(cs, 1, first), <<>>, <<>>),
                   ModuleInfo(<<"b", ".py">>, SubSeq(cs, first + 1, Len(cs)), <<>>, <<>>)>>)

DiagramProjects ==
    {ProjectModel(<<>>)}
    \cup {DiagramProject(split[1], split[2]) :
            split \in {split \in BoundedSeqs(DiagramClasses, MaxClasses) \X (0..MaxClasses) :
                          split[2] <= Len(split[1])}}

DiagramOptions ==
    [public_only : BOOLEAN, group_by_module : BOOLEAN, show_relations : BOOLEAN,
     max_classes : {-1, 0, 1, 2}]

\* the defaults of the dataclass fields of both generators
DefaultOptions ==
    [public_only |-> TRUE, group_by_module |-> FALSE, show_relations |-> TRUE,
     max_classes |-> 0]

generate_plantuml ==
    /\ plantuml = None
    /\ plantuml' = Some(DiagramGenerator_generate_class_diagram(diagram_project, diagram_options))
    /\ UNCHANGED <<beside_diagram, diagram_project, diagram_options, mermaid>>

generate_mermaid ==
    /\ mermaid = None
    /\ mermaid' = Some(MermaidDiagramGenerator_generate_class_diagram(diagram_project,
                                                                     diagram_options))
    /\ UNCHANGED <<beside_diagram, diagram_project, diagram_options, plantuml>>

(***************************************************************************)
(* The source loader (text_loader.py) and _read_source_best_effort.  The   *)
(* bytes of a file are a sequence of tokens: an ASCII word or sign, or one *)
(* of the byte sequences of Bytes; a decoded text is a sequence of         *)
(* characters.                                                             *)
(***************************************************************************)
\* the UTF-8 byte-order mark; one byte that is a letter in cp1251 and no
\* UTF-8; one byte that cp1251 does not define and that is no UTF-8; the two
\* bytes of a letter in UTF-8
_UTF8_BOM_BYTES == "0xEFBBBF"
Bytes == {_UTF8_BOM_BYTES, "0xCF", "0x98", "0xD09F"}

_UTF8_BOM == "U+FEFF"
Replacement == "U+FFFD"

\* the codecs of the interpreter that the files name; every other name is
\* unknown to codecs.lookup
Codecs == {"utf-8", "cp1251", "undefined"}

\* the characters codec c decodes token t to, <<>> when c rejects t
DecodeToken(t, c) ==
    CASE t \notin Bytes -> <<t>>
      [] t = "0xCF" -> IF c = "cp1251" THEN <<"U+041F">> ELSE <<>>
      [] t = "0x98" -> <<>>
      [] t = "0xD09F" -> IF c = "cp1251" THEN <<"U+0420", "U+045F">> ELSE <<"U+041F">>
      [] t = _UTF8_BOM_BYTES ->
            IF c = "cp1251" THEN <<"U+043F", "U+00BB", "U+0457">> ELSE <<_UTF8_BOM>>

\* bytes.decode(encoding, errors): the text, or the exception it raises.
\* The codec `undefined` raises UnicodeError for every input.
decode(raw, encoding, errors) ==
    IF encoding \notin Codecs THEN [raised |-> "LookupError"]
    ELSE IF encoding = "undefined" THEN [raised |-> "UnicodeError"]
    ELSE IF errors = "strict" /\ \E n \in 1..Len(raw) : DecodeToken(raw[n], encoding) = <<>>
    THEN [raised |-> "UnicodeDecodeError"]
    ELSE [raised |-> "",
          text |-> Flatten([n \in 1..Len(raw) |->
                               IF DecodeToken(raw[n], encoding) = <<>>
                               THEN <<Replacement>>
                               ELSE DecodeToken(raw[n], encoding)])]

\* raw.splitlines(True): the lines with their line ends
RECURSIVE splitlines(_)
splitlines(raw) ==
    IF raw = <<>> THEN <<>>
    ELSE IF "\n" \in Range(raw)
    THEN <<SubSeq(raw, 1, Least(Positions(raw, "\n")))>>
         \o splitlines(SubSeq(raw, Least(Positions(raw, "\n")) + 1, Len(raw)))
    ELSE <<raw>>

Blank == {" ", "\t"}
\* the tokens that [-\w.]+ matches
EncodingNames == {"utf-8", "cp1251", "undefined", "nope", "x", "1", "coding"}

\* the first position after n - 1 of line that holds no blank
SkipBlank(line, n) == Least({m \in n..(Len(line) + 1) : m > Len(line) \/ line[m] \notin Blank})

\* _PEP263_LINE_RE.match(line): the positions of `coding` where the rest of
\* the pattern matches, when the line starts with blanks and `#`
CookiePositions(line) ==
    IF SkipBlank(line, 1) <= Len(line) /\ line[SkipBlank(line, 1)] = "#"
    THEN {n \in (SkipBlank(line, 1) + 1)..(Len(line) - 2) :
             /\ line[n] = "coding"
             /\ line[n + 1] \in {":", "="}
             /\ \A m \in (SkipBlank(line, 1) + 1)..n : line[m] # "\n"
             /\ SkipBlank(line, n + 2) <= Len(line)
             /\ line[SkipBlank(line, n + 2)] \in EncodingNames}
    ELSE {}

\* m.group(1) of the leftmost match
CookieOf(line) == line[SkipBlank(line, Least(CookiePositions(line)) + 2)]

_detect_pep263_encoding_from_lines(line1, line2) ==
    IF CookiePositions(line1) # {} THEN Some(CookieOf(line1))
    ELSE IF CookiePositions(line2) # {} THEN Some(CookieOf(line2))
    ELSE None

SourceText(text, encoding, used_fallback, truncated) ==
    [raised |-> "", text |-> text, encoding |-> encoding, used_fallback |-> used_fallback,
     truncated |-> truncated]

\* txt.lstrip(_UTF8_BOM)
RECURSIVE lstrip_bom(_)
lstrip_bom(txt) == IF txt # <<>> /\ txt[1] = _UTF8_BOM THEN lstrip_bom(Tail(txt)) ELSE txt

\* read_python_source(path): the SourceText, or the exception it raises.
\* f.head holds the first max_bytes bytes of the file, f.more tells that the
\* file has more.
read_python_source(f) ==
    IF ~f.exists THEN [raised |-> "FileNotFoundError"]
    ELSE
    LET raw == f.head
        truncated == f.more
        head == splitlines(raw)
        line1 == IF Len(head) >= 1 THEN head[1] ELSE <<>>
        line2 == IF Len(head) >= 2 THEN head[2] ELSE <<>>
        pep263 == _detect_pep263_encoding_from_lines(line1, line2)
        utf8 == decode(raw, "utf-8", "strict")
        after_pep263 ==
            IF utf8.raised = ""
            THEN SourceText(utf8.text, "utf-8", FALSE, truncated)
            ELSE SourceText(decode(raw, "utf-8", "replace").text, "utf-8", TRUE, truncated)
    IN  IF raw # <<>> /\ raw[1] = _UTF8_BOM_BYTES
        THEN SourceText(lstrip_bom(decode(raw, "utf-8", "replace").text), "utf-8-sig", FALSE,
                        truncated)
        ELSE IF pep263 # None
        THEN LET declared == decode(raw, pep263[1], "strict")
             IN  IF declared.raised = ""
                 THEN SourceText(declared.text, pep263[1], FALSE, truncated)
                 ELSE IF declared.raised \in {"LookupError", "UnicodeDecodeError"}
                 THEN after_pep263
                 ELSE [raised |-> declared.raised]
        ELSE after_pep263

_SourceLoadResult(text, encoding, used_fallback, error) ==
    [text |-> text, encoding |-> encoding, used_fallback |-> used_fallback, error |-> error]

\* _read_source_best_effort(path); path.read_text raises for a file that
\* does not exist
_read_source_best_effort(f) ==
    LET src_ == read_python_source(f)
    IN  IF src_.raised = ""
        THEN _SourceLoadResult(src_.text, Some(src_.encoding), src_.used_fallback, None)
        ELSE IF f.exists
        THEN _SourceLoadResult(decode(f.whole, "utf-8", "replace").text, Some("utf-8"), TRUE,
                               Some(<<"text_loader_failed", src_.raised>>))
        ELSE _SourceLoadResult(<<>>, None, TRUE, Some(<<"read_failed", "FileNotFoundError">>))

(***************************************************************************)
(* The files the loader is called with.                                    *)
(***************************************************************************)
\* lines with an encoding declaration (of cp1251, of an unknown codec, of
\* the codec `undefined`, of utf-8), a line whose comment does not start
\* the line, and comments with bytes beyond ASCII
FileLines ==
    {<<"#", " ", "-*-", " ", "coding", ":", " ", "cp1251", " ", "-*-">>,
     <<" ", "#", "coding", "=", "nope">>,
     <<"#", "coding", ":", "undefined">>,
     <<"#", " ", "coding", ":", "utf-8">>,
     <<"x", "=", "1", " ", "#", " ", "coding", ":", "cp1251">>,
     <<"#", " ", "0xCF">>,
     <<"#", " ", "0x98">>,
     <<"#", " ", "0xD09F">>}

\* the bytes of a file of the lines ls, after a byte-order mark or not
FileBytes(bom, ls) ==
    (IF bom THEN <<_UTF8_BOM_BYTES>> ELSE <<>>)
    \o Flatten([n \in 1..Len(ls) |-> ls[n] \o <<"\n">>])

\* no file at the path; or a file of some lines that is no longer than
\* max_bytes; or a longer one, of which the lines are the first max_bytes
Files ==
    {[exists |-> FALSE, head |-> <<>>, more |-> FALSE, whole |-> <<>>]}
    \cup {[exists |-> TRUE, head |-> FileBytes(inp[1], inp[2]), more |-> inp[3],
           whole |-> FileBytes(inp[1], inp[2]) \o (IF inp[3] THEN <<"x">> ELSE <<>>)] :
            inp \in BOOLEAN \X BoundedSeqs(FileLines, MaxLines) \X BOOLEAN}

call_read_python_source ==
    /\ source_text = None
    /\ source_text' = Some(read_python_source(source_file))
    /\ UNCHANGED <<beside_loader, source_file, load_result>>

call_read_source_best_effort ==
    /\ load_result = None
    /\ load_result' = Some(_read_source_best_effort(source_file))
    /\ UNCHANGED <<beside_loader, source_file, source_text>>

(***************************************************************************)
(* The tech-stack analyzer (tech_stack_analyzer.py).  A text (an import    *)
(* line, a line of requirements.txt, a key of pyproject.toml) is a         *)
(* sequence of tokens: a name is one token, and so is each of " ", ".",    *)
(* ",", "[", "]", "#", "==", ">=".  A package name is the token itself, "" *)
(* is the empty name.  A score is counted in tenths, a confidence in       *)
(* fortieths: 0.25 * (a margin of m tenths) is m fortieths.                *)
(***************************************************************************)
ConfidenceUnit == 40

\* the names of sys.stdlib_module_names that the texts of the model hold
_STDLIB_MODULES == {"os", "sys", "dataclasses", "importlib"}

_STDLIB_PY2_COMPAT ==
    {"basehttpserver", "simplehttpserver", "stringio", "cstringio", "dummy_threading"}

_NOISE_PREFIXES ==
    {"tests", "test", "testing", "docs", "doc", "examples", "example", "scripts",
     "script", "tools", "tool", "bench", "benchmark", "conftest"}

\* a name is one token, so it never starts with a prefix and a dot unless it
\* is the prefix
_is_noise_module(name) == name = "" \/ name \in _NOISE_PREFIXES

WEB_FRAMEWORKS == {"django", "flask", "fastapi", "starlette", "tornado", "sanic", "aiohttp"}
WEB_RUNTIME == {"uvicorn", "gunicorn", "hypercorn", "granian"}
WEB_RELATED ==
    {"pydantic", "sqlalchemy", "alembic", "jinja2", "httpx", "requests", "celery", "redis",
     "psycopg2", "asyncpg"}
ML_CORE ==
    {"torch", "tensorflow", "keras", "jax", "flax", "sklearn", "scikit-learn", "xgboost",
     "lightgbm", "catboost", "transformers", "datasets", "spacy", "opencv-python"}
SCIENTIFIC_CORE ==
    {"numpy", "scipy", "pandas", "matplotlib", "seaborn", "sympy", "statsmodels", "jupyter",
     "ipykernel", "notebook", "plotly", "bokeh", "astropy"}
CLI_CORE == {"click", "typer", "rich", "textual", "prompt-toolkit", "docopt"}
DEV_TOOLS ==
    {"pytest", "hypothesis", "black", "isort", "ruff", "flake8", "mypy", "pre-commit",
     "coverage", "tox"}

Categories == {"framework:web", "runtime:web", "web", "ml", "scientific", "cli", "dev", "library"}

\* CATEGORY_RULES.get(pkg, "library"): a later loop of lines 142-155
\* overwrites an earlier one
CATEGORY_RULES(pkg) ==
    IF pkg \in DEV_TOOLS THEN "dev"
    ELSE IF pkg \in CLI_CORE THEN "cli"
    ELSE IF pkg \in SCIENTIFIC_CORE THEN "scientific"
    ELSE IF pkg \in ML_CORE THEN "ml"
    ELSE IF pkg \in WEB_RELATED THEN "web"
    ELSE IF pkg \in WEB_RUNTIME THEN "runtime:web"
    ELSE IF pkg \in WEB_FRAMEWORKS THEN "framework:web"
    ELSE "library"

\* str.lower() of a name
lower(t) ==
    CASE t = "StringIO" -> "stringio"
      [] t = "Flask" -> "flask"
      [] OTHER -> t

\* s.split(t, 1)[0]
Before(s, t) == IF t \in Range(s) THEN SubSeq(s, 1, Least(Positions(s, t)) - 1) ELSE s

\* s.startswith(prefix)
startswith(s, prefix) == Len(s) >= Len(prefix) /\ SubSeq(s, 1, Len(prefix)) = prefix

\* the tokens no part of which [A-Za-z0-9_.-] matches
NoNameTokens == {" ", ",", "[", "]", "#", "==", ">="}

\* re.match(r"([A-Za-z0-9_.-]+)", raw).group(1): the longest run of matching
\* tokens raw starts with
RECURSIVE NameRun(_)
NameRun(raw) ==
    IF raw = <<>> \/ raw[1] \in NoNameTokens THEN <<>>
    ELSE <<raw[1]>> \o NameRun(Tail(raw))

_normalize_package_name(raw0) ==
    LET raw == strip(raw0)
        name == Before(Before(NameRun(raw), "["), ".")
    IN  IF raw = <<>> THEN ""
        ELSE IF NameRun(raw) = <<>> THEN ""
        ELSE IF name = <<>> THEN ""
        ELSE lower(name[1])

\* str.split(): the words between the blanks
RECURSIVE split(_)
split(s) ==
    LET t == lstrip(s)
    IN  IF t = <<>> THEN <<>>
        ELSE <<Before(t, " ")>> \o split(SubSeq(t, Len(Before(t, " ")) + 1, Len(t)))

\* the names that begin with the letters `import`
ImportPrefixed == {"import", "importlib", "importlib_metadata"}

\* module.split("import", 1)[0]
BeforeImport(module) ==
    IF Range(module) \cap ImportPrefixed # {}
    THEN SubSeq(module, 1, Least({n \in 1..Len(module) : module[n] \in ImportPrefixed}) - 1)
    ELSE module

\* s.lstrip(".")
RECURSIVE lstrip_dots(_)
lstrip_dots(s) == IF s # <<>> /\ s[1] = "." THEN lstrip_dots(Tail(s)) ELSE s

\* s.split(" as ", 1)[0]
BeforeAs(s) ==
    LET at == {n \in 1..(Len(s) - 2) : s[n] = " " /\ s[n + 1] = "as" /\ s[n + 2] = " "}
    IN  IF at # {} THEN SubSeq(s, 1, Least(at) - 1) ELSE s

\* one turn of the loop of _iter_import_modules: the package the line
\* yields, "" when it yields none
import_module(stmt0) ==
    LET stmt == strip(stmt0)
        parts == split(stmt)
        module == lstrip_dots(strip(BeforeImport(parts[2])))
        rest == SubSeq(stmt, 3, Len(stmt))
        first_part == strip(Before(rest, ","))
    IN  IF stmt = <<>> THEN ""
        ELSE IF startswith(stmt, <<"from", " ", ".">>) THEN ""
        ELSE IF startswith(stmt, <<"from", " ">>)
        THEN IF Len(parts) >= 2
             THEN _normalize_package_name(Before(module, "."))
             ELSE ""
        ELSE IF startswith(stmt, <<"import", " ">>)
        THEN _normalize_package_name(Before(strip(BeforeAs(first_part)), "."))
        ELSE ""

_iter_import_modules(imports) == {import_module(stmt) : stmt \in imports} \ {""}

\* _parse_requirements: the packages of the lines of the file
_parse_requirements(lines) ==
    {_normalize_package_name(strip(line)) :
        line \in {l \in lines : /\ strip(l) # <<>>
                                /\ ~startswith(strip(l), <<"#">>)
                                /\ ~startswith(strip(l), <<"-e", " ">>)}} \ {""}

\* the keys of one dependency table of pyproject.toml, as _parse_poetry_deps
\* keeps them
poetry_names(keys) == {_normalize_package_name(k) : k \in keys} \ {"", "python"}

\* _parse_poetry_deps(pyproject_path): deps, dev_deps, optional_deps, scripts
_parse_poetry_deps(pyproject) ==
    [deps |-> poetry_names(pyproject.dependencies),
     dev_deps |-> poetry_names(pyproject.group_dev) \cup poetry_names(pyproject.dev_dependencies),
     optional_deps |-> poetry_names(pyproject.group_other),
     scripts |-> pyproject.scripts]

Buckets == <<"web", "ml", "cli", "scientific">>

If(b, n) == IF b THEN n ELSE 0

\* mutant: a web runtime adds nothing to the web score
_classify_scores_no_runtime(all_packages, frameworks, poetry_scripts) ==
    [b \in Range(Buckets) |->
        CASE b = "web" -> 40 * Cardinality(frameworks)
                          + 5 * Cardinality(all_packages \cap WEB_RELATED)
          [] b = "ml" -> 15 * Cardinality(all_packages \cap ML_CORE)
                         + If(all_packages \cap {"torch", "tensorflow", "jax"} # {}, 20)
          [] b = "scientific" -> 10 * Cardinality(all_packages \cap SCIENTIFIC_CORE)
                                 + If(all_packages \cap {"numpy", "scipy"} # {}, 10)
          [] b = "cli" -> 12 * Cardinality(all_packages \cap CLI_CORE)
                          + If(poetry_scripts # {}, 40)]

\* the score table of _classify, in tenths
_classify_scores(all_packages, frameworks, poetry_scripts) ==
    [b \in Range(Buckets) |->
        CASE b = "web" -> 40 * Cardinality(frameworks)
                          + If(all_packages \cap WEB_RUNTIME # {}, 20)
                          + 5 * Cardinality(all_packages \cap WEB_RELATED)
          [] b = "ml" -> 15 * Cardinality(all_packages \cap ML_CORE)
                         + If(all_packages \cap {"torch", "tensorflow", "jax"} # {}, 20)
          [] b = "scientific" -> 10 * Cardinality(all_packages \cap SCIENTIFIC_CORE)
                                 + If(all_packages \cap {"numpy", "scipy"} # {}, 10)
          [] b = "cli" -> 12 * Cardinality(all_packages \cap CLI_CORE)
                          + If(poetry_scripts # {}, 40)]

\* max(scores.items(), key=...): the position of the first bucket of the
\* greatest score
best_bucket(scores) ==
    CHOOSE n \in 1..Len(Buckets) :
        /\ \A m \in 1..Len(Buckets) : scores[Buckets[m]] <= scores[Buckets[n]]
        /\ \A m \in 1..(n - 1) : scores[Buckets[m]] < scores[Buckets[n]]

\* sorted(scores.values(), reverse=True)
sorted_scores(scores) ==
    LET values == [n \in 1..Len(Buckets) |-> scores[Buckets[n]]]
        order == sort_reverse(values, [n \in 1..Len(Buckets) |-> n])
    IN  [n \in 1..Len(Buckets) |-> values[order[n]]]

\* mutant: the best bucket is reported even when no bucket scored
_classify_best_no_unknown(scores) ==
    LET best_score == scores[Buckets[best_bucket(scores)]]
        second_score == sorted_scores(scores)[2]
        margin == IF best_score - second_score > 0 THEN best_score - second_score ELSE 0
    IN  [project_type |-> Buckets[best_bucket(scores)],
         confidence |-> IF margin < ConfidenceUnit THEN margin ELSE ConfidenceUnit]

\* the type and the confidence _classify derives from the score table
_classify_best(scores) ==
    LET best_score == scores[Buckets[best_bucket(scores)]]
        second_score == sorted_scores(scores)[2]
        margin == IF best_score - second_score > 0 THEN best_score - second_score ELSE 0
        confidence == IF best_score > 0
                      THEN (IF margin < ConfidenceUnit THEN margin ELSE ConfidenceUnit)
                      ELSE 0
    IN  IF best_score <= 0
        THEN [project_type |-> "unknown", confidence |-> 0]
        ELSE [project_type |-> Buckets[best_bucket(scores)], confidence |-> confidence]

\* TechStackAnalyzer._classify: project_type, scores and confidence
_classify(all_packages, frameworks, poetry_scripts) ==
    LET scores == _classify_scores(all_packages, frameworks, poetry_scripts)
    IN  [project_type |-> _classify_best(scores).project_type,
         type_scores |-> scores,
         confidence |-> _classify_best(scores).confidence]

\* TechStackAnalyzer.analyze(project): the keys of the report that name
\* packages or the project type.  A sorted list of distinct names is the set
\* of its names.
analyze(p) ==
    LET imported_modules == _iter_import_modules(p.imports)
        requirement_modules == _parse_requirements(p.requirements)
        poetry == _parse_poetry_deps(p.pyproject)
        merged == imported_modules \cup requirement_modules
                      \cup poetry.deps \cup poetry.dev_deps \cup poetry.optional_deps
        all_packages == {pkg \in merged : /\ pkg # ""
                                           /\ pkg \notin _STDLIB_MODULES
                                           /\ pkg \notin _STDLIB_PY2_COMPAT
                                           /\ ~_is_noise_module(pkg)}
        frameworks == all_packages \cap WEB_FRAMEWORKS
        categories == [c \in Categories |->
                         {pkg \in all_packages : CATEGORY_RULES(pkg) = c}
                             \cup (IF c = "dev" THEN poetry.dev_deps ELSE {})]
        class == _classify(all_packages, frameworks, poetry.scripts)
    IN  [imports |-> imported_modules,
         requirements |-> requirement_modules,
         poetry_runtime |-> poetry.deps,
         poetry_dev |-> poetry.dev_deps,
         poetry_optional |-> poetry.optional_deps,
         frameworks |-> frameworks,
         libraries |-> all_packages \ WEB_FRAMEWORKS,
         all_packages |-> all_packages,
         categories |-> categories,
         project_type |-> class.project_type,
         type_scores |-> class.type_scores,
         confidence |-> class.confidence]

(***************************************************************************)
(* The projects the analyzer is given: the import lines of the modules,    *)
(* the lines of requirements.txt and the tables of pyproject.toml.         *)
(***************************************************************************)
ImportStatements ==
    {<<"import", " ", "fastapi">>,
     <<"from", " ", "uvicorn", ".", "main", " ", "import", " ", "run">>,
     <<"import", " ", "torch", ".", "nn", " ", "as", " ", "nn">>,
     <<"import", " ", "click">>,
     <<"import", " ", "typer">>,
     <<"import", " ", "os">>,
     <<"import", " ", "StringIO">>,
     <<"import", " ", "benchmarks">>,
     <<"from", " ", "tests", ".", "helpers", " ", "import", " ", "x">>,
     <<"from", " ", ".", ".", "pkg", " ", "import", " ", "a">>,
     <<"from", " ", "importlib_metadata", " ", "import", " ", "version">>}

RequirementLines ==
    {<<"uvicorn", "[", "standard", "]", ">=", "0", ".", "2">>,
     <<"numpy">>,
     <<"docs">>,
     <<"#", " ", "jax">>,
     <<"-e", " ", ".">>}

Entries ==
    {[source |-> "imports", text |-> t] : t \in ImportStatements}
        \cup {[source |-> "requirements", text |-> t] : t \in RequirementLines}
        \cup {[source |-> "dependencies", text |-> <<t>>] : t \in {"python", "fastapi", "sys"}}
        \cup {[source |-> "group_dev", text |-> <<t>>] : t \in {"pytest", "dataclasses"}}
        \cup {[source |-> "dev_dependencies", text |-> <<t>>] : t \in {"tests"}}
        \cup {[source |-> "group_other", text |-> <<t>>] : t \in {"scipy", "test"}}

\* the subsets of S of at most n elements
RECURSIVE AtMost(_, _)
AtMost(S, n) ==
    IF n = 0 THEN {{}}
    ELSE LET smaller == AtMost(S, n - 1)
         IN  smaller \cup {T \cup {x} : T \in smaller, x \in S}

TextsOf(E, source) == {e.text : e \in {d \in E : d.source = source}}

StackProject(E, scripts) ==
    [imports |-> TextsOf(E, "imports"),
     requirements |-> TextsOf(E, "requirements"),
     pyproject |-> [dependencies |-> TextsOf(E, "dependencies"),
                    group_dev |-> TextsOf(E, "group_dev"),
                    dev_dependencies |-> TextsOf(E, "dev_dependencies"),
                    group_other |-> TextsOf(E, "group_other"),
                    scripts |-> scripts]]

StackProjects ==
    {StackProject(E, scripts) : E \in AtMost(Entries, MaxEntries), scripts \in {{}, {"run"}}}

call_analyze ==
    /\ stack_report = None
    /\ stack_report' = Some(analyze(stack_project))
    /\ UNCHANGED <<stack_project, beside_stack>>

(***************************************************************************)
(* POST /analyze/local (main.py, service.py).  A path of the file system   *)
(* is the sequence of its names below "/".  The path of a request is a     *)
(* text: a sequence of tokens, each a name, "..", "/" or a blank.  The     *)
(* detail of an answer is the sequence of the pieces its text is           *)
(* formatted from.                                                         *)
(***************************************************************************)
Directory == [kind |-> "dir", target |-> <<>>, readable |-> TRUE]

\* the file system: /srv/proj, /srv/closed (unreadable), /srv/link -> /etc,
\* /etc, /etc/passwd (a file)
FileSystem ==
    (<<>> :> Directory)
    @@ (<<"srv">> :> Directory)
    @@ (<<"srv", "proj">> :> Directory)
    @@ (<<"srv", "closed">> :> [kind |-> "dir", target |-> <<>>, readable |-> FALSE])
    @@ (<<"srv", "link">> :> [kind |-> "link", target |-> <<"etc">>, readable |-> TRUE])
    @@ (<<"etc">> :> Directory)
    @@ (<<"etc", "passwd">> :> [kind |-> "file", target |-> <<>>, readable |-> TRUE])

Kind(p) == IF p \in DOMAIN FileSystem THEN FileSystem[p].kind ELSE "missing"

\* str(p)
RECURSIVE str(_)
str(p) == IF p = <<>> THEN "" ELSE str(Pop(p)) \o "/" \o Last(p)

\* the names of a path text between its "/"
Parts(raw) == SelectSeq(raw, LAMBDA t : t # "/")

\* Path.resolve: the names `parts` followed from the directory `cur`.  A
\* link is replaced by its target, ".." leaves the directory reached.  With
\* strict, a missing name raises; without, the names after it are kept.
RECURSIVE resolve_from(_, _, _)
resolve_from(cur, parts, strict) ==
    IF parts = <<>> THEN [raised |-> "", path |-> cur]
    ELSE IF strict /\ Kind(cur) = "file" THEN [raised |-> "NotADirectoryError"]
    ELSE IF parts[1] = ".."
    THEN resolve_from(IF cur = <<>> THEN cur ELSE Pop(cur), Tail(parts), strict)
    ELSE IF Kind(Append(cur, parts[1])) = "missing"
    THEN IF strict THEN [raised |-> "FileNotFoundError"]
         ELSE resolve_from(Append(cur, parts[1]), Tail(parts), strict)
    ELSE IF Kind(Append(cur, parts[1])) = "link"
    THEN resolve_from(FileSystem[Append(cur, parts[1])].target, Tail(parts), strict)
    ELSE resolve_from(Append(cur, parts[1]), Tail(parts), strict)

\* Path(raw).expanduser().resolve(strict=...) of an absolute path
Path_resolve(raw, strict) == resolve_from(<<>>, Parts(raw), strict)

\* mutant: every path counts as relative to the root
relative_to_any(p, other) == TRUE

\* p.relative_to(other) does not raise ValueError
relative_to(p, other) == Len(other) <= Len(p) /\ SubSeq(p, 1, Len(other)) = other

HTTPException(status_code, detail) == [status_code |-> status_code, detail |-> detail]

OutsideDetail(p, ar) ==
    <<"Path '", str(p), "' is ", "outside ANALYSIS_ROOT", "='", str(ar), "'">>

\* _validate_local_path(raw_path): the path it returns (raised = 0) or the
\* HTTPException it raises
_validate_local_path(raw_path, analysis_root) ==
    LET raw == strip(raw_path)
        r == Path_resolve(raw, TRUE)
        p == r.path
        ar == resolve_from(<<>>, analysis_root[1], FALSE).path
    IN  IF raw = <<>> THEN [raised |-> 422, detail |-> <<"path is required">>]
        ELSE IF r.raised = "FileNotFoundError"
        THEN [raised |-> 404, detail |-> <<"Path not found: ">> \o raw]
        ELSE IF r.raised # ""
        THEN [raised |-> 400, detail |-> <<"Invalid path: ">> \o raw]
        ELSE IF Kind(p) # "dir"
        THEN [raised |-> 400, detail |-> <<"Path is not a directory: ", str(p)>>]
        ELSE IF analysis_root # None /\ ~relative_to(p, ar)
        THEN [raised |-> 403, detail |-> OutsideDetail(p, ar)]
        ELSE IF ~FileSystem[p].readable
        THEN [raised |-> 403, detail |-> <<"Permission denied: ", str(p)>>]
        ELSE [raised |-> 0, path |-> p]

\* _enforce_analysis_root(root) raises ValueError
_enforce_analysis_root(root, analysis_root) ==
    analysis_root # None /\ ~relative_to(root, analysis_root[1])

DiagramFormats == {"plantuml", "mermaid", "svg"}

\* _normalize_diagram_format(diagram_format) raises ValueError
_normalize_diagram_format(diagram_format) == diagram_format \notin {"plantuml", "mermaid"}

\* analyze_local_project(path, ...): what it raises ("" when it returns), the
\* roots FileScanner scanned and whether CodeParser.parse_files was called
analyze_local_project(p, diagram_format, analysis_root) ==
    LET root == resolve_from(<<>>, p, FALSE).path
    IN  IF Kind(root) = "missing"
        THEN [raised |-> "FileNotFoundError", msg |-> <<"Path not found: ", str(p)>>,
              scanned |-> {}, parsed |-> FALSE]
        ELSE IF Kind(root) # "dir"
        THEN [raised |-> "ValueError", msg |-> <<"Root path is not a directory: ", str(p)>>,
              scanned |-> {}, parsed |-> FALSE]
        ELSE IF _enforce_analysis_root(root, analysis_root)
        THEN [raised |-> "ValueError", msg |-> OutsideDetail(root, analysis_root[1]),
              scanned |-> {}, parsed |-> FALSE]
        ELSE IF _normalize_diagram_format(diagram_format)
        THEN [raised |-> "ValueError",
              msg |-> <<"diagram_format must be 'plantuml' or 'mermaid'">>,
              scanned |-> {root}, parsed |-> TRUE]
        ELSE [raised |-> "", msg |-> <<>>, scanned |-> {root}, parsed |-> TRUE]

\* _map_local_errors(e): msg.lower() holds "path is required", or
\* "outside analysis_root", or neither
_map_local_errors(msg) ==
    IF "path is required" \in Range(msg) THEN HTTPException(422, <<"path is required">>)
    ELSE IF "outside ANALYSIS_ROOT" \in Range(msg) THEN HTTPException(403, msg)
    ELSE HTTPException(400, msg)

\* the handler of POST /analyze/local: the answer, what was scanned and
\* whether anything was parsed
analyze_local(request, analysis_root) ==
    LET v == _validate_local_path(request.path, analysis_root)
        a == analyze_local_project(v.path, request.diagram_format, analysis_root)
    IN  IF v.raised # 0
        THEN [response |-> HTTPException(v.raised, v.detail), scanned |-> {}, parsed |-> FALSE]
        ELSE IF a.raised = ""
        THEN [response |-> [status_code |-> 200, detail |-> <<>>],
              scanned |-> a.scanned, parsed |-> a.parsed]
        ELSE [response |-> _map_local_errors(a.msg), scanned |-> a.scanned, parsed |-> a.parsed]

\* the paths of the requests
RawPaths ==
    {<<>>,
     <<" ">>,
     <<"/", "srv">>,
     <<"/", "srv", "/", "proj">>,
     <<" ", "/", "srv", "/", "proj", " ">>,
     <<"/", "srv", "/", "closed">>,
     <<"/", "srv", "/", "nope">>,
     <<"/", "srv", "/", "link">>,
     <<"/", "srv", "/", "link", "/", "passwd">>,
     <<"/", "srv", "/", "..", "/", "etc">>,
     <<"/", "srv", "/", "proj", "/", "..", "/", "..", "/", "etc">>,
     <<"/", "etc">>,
     <<"/", "etc", "/", "passwd">>,
     <<"/", "etc", "/", "passwd", "/", "x">>,
     <<"/", "etc", "/", "..", "/", "srv", "/", "proj">>,
     <<"/", "nope">>}

Requests == [path : RawPaths, diagram_format : DiagramFormats]

\* settings.analysis_root: None, or an existing directory, resolved
AnalysisRoots == {None, Some(<<"srv">>), Some(<<"srv", "proj">>), Some(<<"etc">>)}

post_analyze_local ==
    /\ api_response = None
    /\ LET r == analyze_local(api_request, api_analysis_root)
       IN  /\ api_response' = Some(r.response)
           /\ api_scanned' = r.scanned
           /\ api_parsed' = r.parsed
    /\ UNCHANGED <<api_request, api_analysis_root, beside_api>>

(***************************************************************************)
(* The file scanner (file_scanner.py).  A name is a sequence of tokens     *)
(* ("keep.py" is <<"keep", ".py">>), a path is the sequence of its names   *)
(* below the root, and a pattern of a .gitignore is a sequence of tokens:  *)
(* those of names and "*", "/", "!", "#", " ".  The list python_files is   *)
(* sorted and holds no path twice: it is the set of its paths.             *)
(***************************************************************************)
DEFAULT_SKIP_DIRS ==
    {<<".git">>, <<"__pycache__">>, <<"env">>, <<"venv">>, <<".venv">>, <<"node_modules">>,
     <<".idea">>, <<".mypy_cache">>}

DEFAULT_BINARY_EXTENSIONS ==
    {".png", ".jpg", ".jpeg", ".gif", ".bmp", ".ico", ".zip", ".tar", ".gz", ".bz2", ".xz",
     ".7z", ".exe", ".dll", ".so", ".dylib", ".pdf", ".bin"}

\* path.suffix
suffix(name) == IF Len(name) > 1 THEN Last(name) ELSE ""

\* fnmatch(s, pat): "*" stands for any tokens, the "/" of a path among them
RECURSIVE fnmatch(_, _)
fnmatch(s, pat) ==
    IF pat = <<>> THEN s = <<>>
    ELSE IF pat[1] = "*"
    THEN \E n \in 0..Len(s) : fnmatch(SubSeq(s, n + 1, Len(s)), Tail(pat))
    ELSE s # <<>> /\ s[1] = pat[1] /\ fnmatch(Tail(s), Tail(pat))

\* rel.as_posix(): the names joined by "/"
RECURSIVE as_posix(_)
as_posix(rel) ==
    IF rel = <<>> THEN <<>>
    ELSE IF Len(rel) = 1 THEN rel[1]
    ELSE rel[1] \o <<"/">> \o as_posix(Tail(rel))

\* s.split("/")
RECURSIVE split_slash(_)
split_slash(s) ==
    IF "/" \in Range(s)
    THEN <<Before(s, "/")>> \o split_slash(SubSeq(s, Len(Before(s, "/")) + 2, Len(s)))
    ELSE <<s>>

\* the pattern of a rule without its "!" and its closing "/"
pat_clean(pat) ==
    LET positive == IF startswith(pat, <<"!">>) THEN Tail(pat) ELSE pat
    IN  IF positive # <<>> /\ Last(positive) = "/" THEN Pop(positive) ELSE positive

negated(pat) == startswith(pat, <<"!">>)

dir_only(pat) ==
    LET positive == IF negated(pat) THEN Tail(pat) ELSE pat
    IN  positive # <<>> /\ Last(positive) = "/"

\* one turn of the loop of _fallback_eval_rules: the rule is not passed over
\* and `matched` is true
fallback_matched(pat, rel_path_posix, is_dir) ==
    /\ dir_only(pat) => is_dir
    /\ pat_clean(pat) # <<>>
    /\ IF "/" \in Range(pat_clean(pat))
       THEN fnmatch(rel_path_posix, pat_clean(pat))
       ELSE \/ fnmatch(Last(split_slash(rel_path_posix)), pat_clean(pat))
            \/ \E n \in 1..Len(split_slash(rel_path_posix)) :
                   fnmatch(split_slash(rel_path_posix)[n], pat_clean(pat))

\* _fallback_eval_rules(rules, rel_path_posix, is_dir, current)
RECURSIVE _fallback_eval_rules(_, _, _, _)
_fallback_eval_rules(rules, rel_path_posix, is_dir, current) ==
    IF rules = <<>> THEN current
    ELSE _fallback_eval_rules(Tail(rules), rel_path_posix, is_dir,
             IF fallback_matched(rules[1], rel_path_posix, is_dir)
             THEN Some(~negated(rules[1]))
             ELSE current)

\* the names of a path match the names of an anchored pattern one by one
NamesMatch(parts, patparts) ==
    /\ Len(parts) >= Len(patparts)
    /\ \A n \in 1..Len(patparts) : fnmatch(parts[n], patparts[n])

\* a gitwildmatch pattern of pathspec matches the file: a pattern without
\* "/" matches a name at any depth and all that lies below it, a pattern
\* that ends with "/" matches what lies below such a name, a pattern with
\* "/" inside is taken from the directory of the .gitignore
gitwildmatch_matched(pat, rel_path_posix) ==
    LET parts == split_slash(rel_path_posix)
    IN  /\ pat_clean(pat) # <<>>
        /\ IF "/" \in Range(pat_clean(pat))
           THEN /\ NamesMatch(parts, split_slash(pat_clean(pat)))
                /\ dir_only(pat) => Len(parts) > Len(split_slash(pat_clean(pat)))
           ELSE \E n \in 1..Len(parts) :
                    /\ fnmatch(parts[n], pat_clean(pat))
                    /\ dir_only(pat) => n < Len(parts)

\* PathSpec.from_lines("gitwildmatch", lines).match_file(rel_str): the last
\* pattern that matches tells whether the file is matched
RECURSIVE match_file(_, _, _)
match_file(lines, rel_str, matched) ==
    IF lines = <<>> THEN matched
    ELSE match_file(Tail(lines), rel_str,
             IF gitwildmatch_matched(lines[1], rel_str) THEN ~negated(lines[1]) ELSE matched)

\* path.relative_to(base), for a base the path lies below
_safe_rel(p, base) == SubSeq(p, Len(base) + 1, Len(p))

\* the loop of GitignoreMatcher.ignores over the levels of the stack
RECURSIVE ignores_loop(_, _, _, _, _)
ignores_loop(stack, p, is_dir, has_pathspec, ignored) ==
    IF stack = <<>> THEN ignored
    ELSE IF ~relative_to(p, stack[1].base_dir)
    THEN ignores_loop(Tail(stack), p, is_dir, has_pathspec, ignored)
    ELSE LET rel_str == as_posix(_safe_rel(p, stack[1].base_dir))
         IN  ignores_loop(Tail(stack), p, is_dir, has_pathspec,
                 IF has_pathspec
                 THEN (IF match_file(stack[1].rules, rel_str, FALSE) THEN Some(TRUE) ELSE ignored)
                 ELSE _fallback_eval_rules(stack[1].rules, rel_str, is_dir, ignored))

\* GitignoreMatcher.ignores(path, is_dir)
ignores(stack, p, is_dir, has_pathspec) ==
    ignores_loop(stack, p, is_dir, has_pathspec, None) = Some(TRUE)

\* the lines of a .gitignore that push_dir keeps
NoRule(line) == strip(line) = <<>> \/ startswith(strip(line), <<"#">>)

kept_lines(raw) ==
    LET Kept(line) == ~NoRule(line)
    IN  [n \in 1..Len(SelectSeq(raw, Kept)) |-> strip(SelectSeq(raw, Kept)[n])]

\* GitignoreMatcher.push_dir(dir_path): the stack after it.  pop_dir takes
\* the level away when the directory is left.
push_dir(stack, dir_path, gitignores) ==
    IF gitignores[dir_path] = None THEN stack
    ELSE IF kept_lines(gitignores[dir_path][1]) = <<>> THEN stack
    ELSE Append(stack, [base_dir |-> dir_path, rules |-> kept_lines(gitignores[dir_path][1])])

RegularFile(name) == [name |-> name, is_symlink |-> FALSE, too_large |-> FALSE]

ScanDirectory(files, subdirs) == [files |-> files, subdirs |-> subdirs]

\* the project that is scanned
ScanTree ==
    (<<>> :> ScanDirectory({RegularFile(<<"keep", ".py">>), RegularFile(<<"skip", ".py">>),
                            RegularFile(<<"notes", ".txt">>), RegularFile(<<"logo", ".png">>),
                            [name |-> <<"link", ".py">>, is_symlink |-> TRUE, too_large |-> FALSE],
                            [name |-> <<"big", ".py">>, is_symlink |-> FALSE, too_large |-> TRUE]},
                           {<<"pkg">>, <<"venv">>}))
    @@ (<< <<"pkg">> >> :> ScanDirectory({RegularFile(<<"keep", ".py">>),
                                          RegularFile(<<"util", ".py">>)}, {<<"gen">>}))
    @@ (<< <<"pkg">>, <<"gen">> >> :> ScanDirectory({RegularFile(<<"keep", ".py">>),
                                                     RegularFile(<<"out", ".py">>)}, {}))
    @@ (<< <<"venv">> >> :> ScanDirectory({RegularFile(<<"site", ".py">>)}, {}))

\* the directories _walk_dirs goes down into from dir_path
walked_subdirs(dir_path, stack, has_pathspec) ==
    {sd \in ScanTree[dir_path].subdirs :
        /\ sd \notin DEFAULT_SKIP_DIRS
        /\ ~ignores(stack, Append(dir_path, sd), TRUE, has_pathspec)}

\* the files of dir_path that scan collects
collected_files(dir_path, stack, has_pathspec) ==
    {Append(dir_path, f.name) :
        f \in {g \in ScanTree[dir_path].files :
                 /\ ~g.is_symlink
                 /\ ~ignores(stack, Append(dir_path, g.name), FALSE, has_pathspec)
                 /\ suffix(g.name) \notin DEFAULT_BINARY_EXTENSIONS
                 /\ suffix(g.name) = ".py"
                 /\ ~g.too_large}}

\* the paths `ignores` is asked about in dir_path, with the stack and the
\* answer
asked_in(dir_path, stack, has_pathspec) ==
    {[path |-> Append(dir_path, sd), is_dir |-> TRUE, stack |-> stack,
      ignored |-> ignores(stack, Append(dir_path, sd), TRUE, has_pathspec)] :
        sd \in ScanTree[dir_path].subdirs \ DEFAULT_SKIP_DIRS}
    \cup {[path |-> Append(dir_path, f.name), is_dir |-> FALSE, stack |-> stack,
           ignored |-> ignores(stack, Append(dir_path, f.name), FALSE, has_pathspec)] :
            f \in {g \in ScanTree[dir_path].files : ~g.is_symlink}}

\* iter_dir(dir_path), with what scan does with the files it yields
RECURSIVE iter_dir(_, _, _, _)
iter_dir(dir_path, stack, gitignores, has_pathspec) ==
    LET below == {iter_dir(Append(dir_path, sd),
                           push_dir(stack, Append(dir_path, sd), gitignores),
                           gitignores, has_pathspec) :
                     sd \in walked_subdirs(dir_path, stack, has_pathspec)}
    IN  [python_files |-> collected_files(dir_path, stack, has_pathspec)
                              \cup UNION {b.python_files : b \in below},
         asked |-> asked_in(dir_path, stack, has_pathspec) \cup UNION {b.asked : b \in below}]

\* FileScanner(root).scan()
scan(gitignores, has_pathspec) ==
    iter_dir(<<>>, push_dir(<<>>, <<>>, gitignores), gitignores, has_pathspec)

\* the lines a .gitignore is made of
GitignoreLines ==
    {<<"*", ".py">>,
     <<"!", "keep", ".py">>,
     <<"gen", "/">>,
     <<"pkg", "/", "keep", ".py">>,
     <<" ", "#", " ", "keep", ".py">>}

GitignoreFiles == {None} \cup {Some(ls) : ls \in BoundedSeqs(GitignoreLines, MaxRules)}

\* the .gitignore of the root and of pkg
Gitignores ==
    {[d \in DOMAIN ScanTree |-> IF d = <<>> THEN top ELSE IF d = << <<"pkg">> >> THEN sub ELSE None] :
        top \in GitignoreFiles, sub \in GitignoreFiles}

call_scan ==
    /\ scan_result = None
    /\ scan_result' = Some(scan(scan_gitignores, scan_has_pathspec))
    /\ UNCHANGED <<scan_gitignores, scan_has_pathspec, beside_scan>>

(***************************************************************************)
(* GitHubFetcher (github_fetcher.py).  A URL is a sequence of tokens; a    *)
(* directory of the workspace is named by the key its name is hashed from. *)
(* A directory holds what git left in it: whether it has a .git, the       *)
(* repository it was cloned from, and the commit that is checked out       *)
(* (<<"HEAD">>: the default branch; <<ref>>: FETCH_HEAD of ref; <<>>:      *)
(* nothing yet).  `old` tells that its mtime is more than the TTL ago.     *)
(***************************************************************************)
NoCheckout == [exists |-> FALSE, git |-> FALSE, origin |-> <<>>, head |-> <<>>, old |-> FALSE]

Checkout(git, origin, head) ==
    [exists |-> TRUE, git |-> git, origin |-> origin, head |-> head, old |-> FALSE]

FetchResult(repo_url, local_path, ref) ==
    [repo_url |-> repo_url, local_path |-> local_path, ref |-> ref]

\* the key that sha256 is taken of; no two keys of the URLs and refs below
\* have the same digest
_target_dir(repo_url, ref) == IF ref = None THEN repo_url ELSE repo_url \o <<"#">> \o ref

\* shutil.rmtree of every directory that has a .git and is older than the TTL
_cleanup_cache_ttl(fetcher, workspace) ==
    IF (IF fetcher.cache_ttl_hours > 0 THEN fetcher.cache_ttl_hours ELSE 0) * 3600 <= 0
    THEN workspace
    ELSE [d \in DOMAIN workspace |->
             IF workspace[d].exists /\ workspace[d].git /\ workspace[d].old
             THEN NoCheckout
             ELSE workspace[d]]

\* what subprocess.run raises, as _run re-raises it
_run(raised) ==
    IF raised \in {"TimeoutExpired", "CalledProcessError"} THEN "CloneFailed" ELSE ""

\* `git clone --depth 1 repo_url target_dir`: git refuses a directory that
\* exists and is not empty; when it fails it removes what it created; when
\* it is killed at the timeout, what it created so far stays (with a .git
\* when git.dot_git)
git_clone(workspace, repo_url, target_dir, git) ==
    IF workspace[target_dir].exists
    THEN [raised |-> "CalledProcessError", workspace |-> workspace]
    ELSE CASE git.clone = "ok" ->
                [raised |-> "",
                 workspace |-> [workspace EXCEPT
                                   ![target_dir] = Checkout(TRUE, repo_url, <<"HEAD">>)]]
           [] git.clone = "CalledProcessError" ->
                [raised |-> "CalledProcessError", workspace |-> workspace]
           [] git.clone = "TimeoutExpired" ->
                [raised |-> "TimeoutExpired",
                 workspace |-> [workspace EXCEPT
                                   ![target_dir] = Checkout(git.dot_git, repo_url, <<>>)]]

\* `git fetch --depth 1 origin ref` and `git checkout FETCH_HEAD`
git_checkout(workspace, target_dir, ref, git) ==
    IF git.fetch # "ok" THEN [raised |-> git.fetch, workspace |-> workspace]
    ELSE IF git.checkout # "ok" THEN [raised |-> git.checkout, workspace |-> workspace]
    ELSE [raised |-> "", workspace |-> [workspace EXCEPT ![target_dir].head = ref]]

\* GitHubFetcher.fetch(repo_url, ref=ref): what it raises or returns, and
\* the workspace it leaves; git tells how the git commands end
fetch(fetcher, workspace, repo_url0, ref, git) ==
    LET repo_url == strip(repo_url0)
        Raised(e, w) == [raised |-> e, result |-> None, workspace |-> w]
        Returned(w) ==
            [raised |-> "",
             result |-> Some(FetchResult(repo_url, _target_dir(repo_url, ref), ref)),
             workspace |-> w]
        cleaned == _cleanup_cache_ttl(fetcher, workspace)
        target_dir == _target_dir(repo_url, ref)
        cloned == git_clone(cleaned, repo_url, target_dir, git)
        checked == git_checkout(cloned.workspace, target_dir, ref, git)
    IN  IF repo_url = <<>> THEN Raised("InvalidRepoUrl", workspace)
        ELSE IF ~startswith(repo_url, <<"https://">>) THEN Raised("InvalidRepoUrl", workspace)
        ELSE IF ~fetcher.allow_clone THEN Raised("GitHubFetcherNotImplemented", workspace)
        ELSE IF ~fetcher.has_git THEN Raised("GitNotInstalled", workspace)
        ELSE IF cleaned[target_dir].exists /\ cleaned[target_dir].git THEN Returned(cleaned)
        ELSE IF _run(cloned.raised) # "" THEN Raised(_run(cloned.raised), cloned.workspace)
        ELSE IF ref = None THEN Returned(cloned.workspace)
        ELSE IF _run(checked.raised) # "" THEN Raised(_run(checked.raised), checked.workspace)
        ELSE Returned(checked.workspace)

(***************************************************************************)
(* The fetchers, the calls and the ways git ends.                          *)
(***************************************************************************)
RepoUrls == {<<"https://", "h/a">>, <<" ", "https://", "h/b", " ">>, <<"git@", "h/a">>, <<" ">>}

Refs == {None, Some("v1")}

\* the directories of the workspace that the calls can name
TargetDirs == {_target_dir(strip(u), r) : u \in RepoUrls, r \in Refs}

GitEnds == {"ok", "CalledProcessError", "TimeoutExpired"}

GitRuns == [clone : GitEnds, dot_git : BOOLEAN, fetch : GitEnds, checkout : GitEnds]

\* allow_clone and cache_ttl_hours of the constructor, and whether
\* shutil.which finds git
Fetchers == [allow_clone : BOOLEAN, cache_ttl_hours : {0, 72}, has_git : BOOLEAN]

call_fetch ==
    /\ fetch_calls < MaxFetches
    /\ \E repo_url \in RepoUrls, ref \in Refs, git \in GitRuns :
          LET call == fetch(fetch_fetcher, fetch_workspace, repo_url, ref, git)
          IN  /\ fetch_workspace' = call.workspace
              /\ fetch_result' = Some([repo_url |-> repo_url, ref |-> ref,
                                       raised |-> call.raised, result |-> call.result])
    /\ fetch_calls' = fetch_calls + 1
    /\ UNCHANGED <<fetch_fetcher, beside_fetch>>

\* more than the TTL passes between two calls
ttl_passes ==
    /\ \E d \in TargetDirs : fetch_workspace[d].exists /\ ~fetch_workspace[d].old
    /\ fetch_workspace' = [d \in TargetDirs |->
                              IF fetch_workspace[d].exists
                              THEN [fetch_workspace[d] EXCEPT !.old = TRUE]
                              ELSE fetch_workspace[d]]
    /\ UNCHANGED <<fetch_fetcher, fetch_result, fetch_calls, beside_fetch>>

(***************************************************************************)
(* Specifications.                                                         *)
(***************************************************************************)
InitCommon ==
    /\ pc = "loop"
    /\ idx = 1
    /\ modules = <<>>
    /\ project = None
    /\ path = ""
    /\ src = OkLoad
    /\ visitor = NewVisitor
    /\ frames = <<>>
    /\ tree = <<>>
    /\ outcome = NoOutcome

\* no generator is called
NoDiagram ==
    /\ diagram_project = ProjectModel(<<>>)
    /\ diagram_options = DefaultOptions
    /\ plantuml = None
    /\ mermaid = None

\* no file is read by the loader alone
NoLoader ==
    /\ source_file = [exists |-> FALSE, head |-> <<>>, more |-> FALSE, whole |-> <<>>]
    /\ source_text = None
    /\ load_result = None

\* the analyzer is not called
NoStack ==
    /\ stack_project = StackProject({}, {})
    /\ stack_report = None

\* nothing is scanned
NoScan ==
    /\ scan_gitignores = [d \in DOMAIN ScanTree |-> None]
    /\ scan_has_pathspec = FALSE
    /\ scan_result = None

\* nothing is fetched
NoFetch ==
    /\ fetch_fetcher = [allow_clone |-> FALSE, cache_ttl_hours |-> 72, has_git |-> FALSE]
    /\ fetch_workspace = [d \in TargetDirs |-> NoCheckout]
    /\ fetch_result = None
    /\ fetch_calls = 0

\* nothing is posted
NoApi ==
    /\ api_analysis_root = None
    /\ api_request = [path |-> <<>>, diagram_format |-> "plantuml"]
    /\ api_response = None
    /\ api_scanned = {}
    /\ api_parsed = FALSE

\* parse_files is not called
NoParser ==
    /\ paths = <<>>
    /\ loads = <<>>
    /\ vocab = "all"
    /\ budget = 0
    /\ InitCommon

SinglePaths == {<<>>, <<"a.py">>, <<"~nouser/c.py">>}

\* parse_files of at most one path, the file made of any statements
Init ==
    /\ paths \in SinglePaths
    /\ loads \in [1..Len(paths) -> SourceLoads]
    /\ vocab = "all"
    /\ budget = MaxNodes
    /\ InitCommon
    /\ NoDiagram
    /\ NoLoader
    /\ NoStack
    /\ NoApi
    /\ NoScan
    /\ NoFetch

\* parse_files([p]) for a longer file of few kinds of statements
InitDeep ==
    /\ paths \in SinglePaths \ {<<>>}
    /\ loads = [n \in 1..Len(paths) |-> OkLoad]
    /\ \/ vocab = "dup" /\ budget = MaxDupNodes
       \/ vocab = "init" /\ budget = MaxInitNodes
    /\ InitCommon
    /\ NoDiagram
    /\ NoLoader
    /\ NoStack
    /\ NoApi
    /\ NoScan
    /\ NoFetch

\* parse_files([p]) for a file of the statements of EdgeVocabulary
InitEdges ==
    /\ paths = <<"a.py">>
    /\ loads = <<OkLoad>>
    /\ vocab = "edge"
    /\ budget = MaxEdgeNodes
    /\ InitCommon
    /\ NoDiagram
    /\ NoLoader
    /\ NoStack
    /\ NoApi
    /\ NoScan
    /\ NoFetch

\* parse_files(paths) for a sequence of paths
InitBatch ==
    /\ paths \in BoundedSeqs(Paths, MaxPaths)
    /\ loads \in [1..Len(paths) -> SourceLoads]
    /\ vocab = "all"
    /\ budget = MaxBatchNodes
    /\ InitCommon
    /\ NoDiagram
    /\ NoLoader
    /\ NoStack
    /\ NoApi
    /\ NoScan
    /\ NoFetch

\* both generators are called, in either order, with one project and the
\* same options
InitDiagram ==
    /\ NoParser
    /\ NoLoader
    /\ NoStack
    /\ NoApi
    /\ NoScan
    /\ NoFetch
    /\ diagram_project \in DiagramProjects
    /\ diagram_options \in DiagramOptions
    /\ plantuml = None
    /\ mermaid = None

\* the loader and its wrapper read one file, in either order
InitLoader ==
    /\ NoParser
    /\ NoDiagram
    /\ NoStack
    /\ NoApi
    /\ NoScan
    /\ NoFetch
    /\ source_file \in Files
    /\ source_text = None
    /\ load_result = None

\* the analyzer is given one project
InitStack ==
    /\ NoParser
    /\ NoDiagram
    /\ NoLoader
    /\ NoApi
    /\ NoScan
    /\ NoFetch
    /\ stack_project \in StackProjects
    /\ stack_report = None

\* one request is posted to /analyze/local
InitApi ==
    /\ NoParser
    /\ NoDiagram
    /\ NoLoader
    /\ NoStack
    /\ NoScan
    /\ NoFetch
    /\ api_analysis_root \in AnalysisRoots
    /\ api_request \in Requests
    /\ api_response = None
    /\ api_scanned = {}
    /\ api_parsed = FALSE

\* one project is scanned, with or without pathspec
InitScan ==
    /\ NoParser
    /\ NoDiagram
    /\ NoLoader
    /\ NoStack
    /\ NoApi
    /\ NoFetch
    /\ scan_gitignores \in Gitignores
    /\ scan_has_pathspec \in BOOLEAN
    /\ scan_result = None

\* one fetcher is called on a workspace that is empty at first
InitFetch ==
    /\ NoParser
    /\ NoDiagram
    /\ NoLoader
    /\ NoStack
    /\ NoApi
    /\ NoScan
    /\ fetch_fetcher \in Fetchers
    /\ fetch_workspace = [d \in TargetDirs |-> NoCheckout]
    /\ fetch_result = None
    /\ fetch_calls = 0

Next ==
    \/ parse_files_iter
    \/ ast_parse_raises
    \/ visit_raises
    \/ parse_file_return
    \/ parse_files_return
    \/ visit_ClassDef
    \/ visit_FunctionDef
    \/ visit_AsyncFunctionDef
    \/ generic_visit_return
    \/ visit_AnnAssign
    \/ visit_Assign
    \/ visit_Import
    \/ visit_ImportFrom

\* the steps of a file of DupVocabulary or InitVocabulary
NextDeep ==
    \/ parse_files_iter
    \/ ast_parse_raises
    \/ visit_raises
    \/ parse_file_return
    \/ visit_ClassDef
    \/ visit_FunctionDef
    \/ generic_visit_return
    \/ visit_Assign

\* the steps of a file of EdgeVocabulary
NextEdges ==
    \/ parse_files_iter
    \/ parse_file_return
    \/ visit_ClassDef
    \/ visit_FunctionDef
    \/ generic_visit_return
    \/ visit_AnnAssign
    \/ visit_Assign

NextDiagram ==
    \/ generate_plantuml
    \/ generate_mermaid

NextLoader ==
    \/ call_read_python_source
    \/ call_read_source_best_effort

NextStack ==
    \/ call_analyze

NextApi ==
    \/ post_analyze_local

NextScan ==
    \/ call_scan

NextFetch ==
    \/ call_fetch
    \/ ttl_passes

Spec == Init /\ [][Next]_vars

SpecDeep == InitDeep /\ [][NextDeep]_vars

SpecEdges == InitEdges /\ [][NextEdges]_vars

SpecBatch == InitBatch /\ [][Next]_vars

SpecDiagram == InitDiagram /\ [][NextDiagram]_vars

SpecLoader == InitLoader /\ [][NextLoader]_vars

SpecStack == InitStack /\ [][NextStack]_vars

SpecApi == InitApi /\ [][NextApi]_vars

SpecScan == InitScan /\ [][NextScan]_vars

SpecFetch == InitFetch /\ [][NextFetch]_vars

(***************************************************************************)
(* The syntax tree, for the statements of the claims.  tree[n].parent is   *)
(* the innermost definition (class or function) whose body holds node n,   *)
(* 0 at module level.                                                      *)
(***************************************************************************)
Nodes == 1..Len(tree)

IsClass(n) == tree[n].node.kind = "ClassDef"

IsFunction(n) == tree[n].node.kind \in {"FunctionDef", "AsyncFunctionDef"}

RECURSIVE Ancestors(_)
Ancestors(n) ==
    IF tree[n].parent = 0 THEN <<>> ELSE <<tree[n].parent>> \o Ancestors(tree[n].parent)

\* the nearest enclosing class definition of node n, 0 when there is none
EnclosingClass(n) ==
    LET cs == SelectSeq(Ancestors(n), IsClass) IN IF cs = <<>> THEN 0 ELSE cs[1]

\* the innermost function definition around node n, 0 when there is none
EnclosingFunction(n) ==
    LET fs == SelectSeq(Ancestors(n), IsFunction) IN IF fs = <<>> THEN 0 ELSE fs[1]

\* node n is a statement of a method of class c: c is its nearest enclosing
\* class and a function of c's body lies between them
InMethodOf(n, c) == EnclosingClass(n) = c /\ tree[n].parent # c

\* node n assigns to self.<a>
AssignsSelf(n, a) ==
    \/ /\ tree[n].node.kind = "Assign"
       /\ \E t \in 1..Len(tree[n].node.targets) : tree[n].node.targets[t] = SelfAttr(a)
    \/ /\ tree[n].node.kind = "AnnAssign"
       /\ tree[n].node.target = SelfAttr(a)

AttrNames == {"x", "y", "v"}

\* parse_file has returned the module of a file it parsed and traversed
Extracted == outcome.kind = "ok"

Module == Last(modules)

\* the ClassInfo records of the extracted module that were built from node c
InfosOf(c) == {k \in 1..Len(Module.classes) : Module.classes[k].lineno = c}

Empty(m) == m.classes = <<>> /\ m.functions = <<>> /\ m.imports = <<>>

(***************************************************************************)
(* C1: parse_file never raises because of the content of a file: when      *)
(* ast.parse or the traversal raises (also midway, after classes,          *)
(* functions or imports were collected), the module returned has no        *)
(* classes, functions or imports and a parse_error; no module with a       *)
(* parse_error has a class, a function or an import.                       *)
(***************************************************************************)
C1_ParseFileNeverRaises ==
    /\ outcome.kind \in {"SyntaxError", "ParseError"} =>
          Empty(Module) /\ Module.parse_error # None
    /\ \A n \in 1..Len(modules) : modules[n].parse_error # None => Empty(modules[n])
    /\ pc = "raised" => ~Resolvable(paths[idx])

C1_Witness ==
    /\ outcome.kind = "ParseError"
    /\ outcome.collected
    /\ Empty(Module)
    /\ Module.parse_error = Some("ParseError")

(***************************************************************************)
(* C2: the only statement of class A that assigns self.x is                *)
(* `self.x: Foo = Foo()` in a method of A; then A has, for x, exactly one  *)
(* aggregation edge to Foo and exactly one composition edge to Foo.        *)
(***************************************************************************)
AnnotatedAndCalled ==
    [kind |-> "AnnAssign", target |-> SelfAttr("x"), annotation |-> Name("Foo"),
     value |-> Some(Call(Name("Foo")))]

EdgesOf(info, a, target, kind) ==
    {e \in 1..Len(info.compositions) :
        /\ info.compositions[e].attribute = a
        /\ info.compositions[e].target = target
        /\ info.compositions[e].kind = kind}

C2_AnnotatedAndCalledBothEdges ==
    Extracted =>
        \A c \in Nodes, n \in Nodes :
            (/\ IsClass(c)
             /\ tree[n].node = AnnotatedAndCalled
             /\ InMethodOf(n, c)
             /\ \A m \in Nodes : AssignsSelf(m, "x") /\ EnclosingClass(m) = c => m = n)
            => \A k \in InfosOf(c) :
                  /\ Cardinality(EdgesOf(Module.classes[k], "x", "Foo", "aggregation")) = 1
                  /\ Cardinality(EdgesOf(Module.classes[k], "x", "Foo", "composition")) = 1

(***************************************************************************)
(* C3: for every class, and every name that the methods of the class       *)
(* assign to through self, the attributes of the class hold exactly one    *)
(* instance attribute of that name.                                        *)
(***************************************************************************)
InstanceAttrs(info, a) ==
    {j \in 1..Len(info.attributes) :
        info.attributes[j].name = a /\ info.attributes[j].is_instance}

C3_OneInstanceAttrPerName ==
    Extracted =>
        \A c \in Nodes, a \in AttrNames :
            (IsClass(c) /\ \E n \in Nodes : AssignsSelf(n, a) /\ InMethodOf(n, c))
            => \A k \in InfosOf(c) :
                  Cardinality(InstanceAttrs(Module.classes[k], a)) = 1

(***************************************************************************)
(* C4: no class of an extracted module has a method named __init__; a      *)
(* function named __init__ that is visited while a class is open is the    *)
(* init of a class and a method of none, whatever the nesting.             *)
(***************************************************************************)
C4_InitNeverInMethods ==
    Extracted =>
        /\ \A k \in 1..Len(Module.classes) :
              \A m \in 1..Len(Module.classes[k].methods) :
                  Module.classes[k].methods[m].name # "__init__"
        /\ \A n \in Nodes :
              (IsFunction(n) /\ tree[n].node.name = "__init__" /\ EnclosingClass(n) # 0)
              => /\ \A k \in InfosOf(EnclosingClass(n)) :
                        /\ Module.classes[k].init # None
                        /\ Module.classes[k].init[1].name = "__init__"
                 /\ \A k \in 1..Len(Module.classes) :
                        \A m \in 1..Len(Module.classes[k].methods) :
                            Module.classes[k].methods[m].lineno # n

\* an __init__ defined inside a method of a class
C4_Witness ==
    /\ Extracted
    /\ \E n \in Nodes :
          /\ IsFunction(n) /\ tree[n].node.name = "__init__"
          /\ tree[n].parent # 0 /\ IsFunction(tree[n].parent)
          /\ EnclosingClass(n) # 0
          /\ \E k \in InfosOf(EnclosingClass(n)) : Module.classes[k].init[1].lineno = n

(***************************************************************************)
(* C5: no composition or aggregation edge of an extracted module has a     *)
(* target in _PRIMITIVE_TYPES, whether the name came from an annotation    *)
(* (also inside a generic or a forward reference) or from a call.          *)
(***************************************************************************)
C5_NoPrimitiveTarget ==
    Extracted =>
        \A k \in 1..Len(Module.classes) :
            \A e \in 1..Len(Module.classes[k].compositions) :
                Module.classes[k].compositions[e].target \notin _PRIMITIVE_TYPES

\* a class with `v: list['pkg.Foo']` and `self.y = v = pkg.int()` in its body
C5_Witness ==
    /\ Extracted
    /\ \E c \in Nodes, n \in Nodes, m \in Nodes :
          /\ IsClass(c) /\ tree[n].parent = c /\ tree[m].parent = c
          /\ tree[n].node.kind = "AnnAssign"
          /\ tree[n].node.annotation = Subscript(Name("list"), StrConstant(<<"pkg", ".", "Foo">>))
          /\ tree[m].node.kind = "Assign"
          /\ tree[m].node.value = Call(Attribute(Name("pkg"), "int"))
          /\ \E k \in InfosOf(c) :
                /\ Len(Module.classes[k].compositions) = 1
                /\ Module.classes[k].compositions[1].target = "Foo"
                /\ Len(Module.classes[k].attributes) = 1

(***************************************************************************)
(* C6: an instance attribute has declared_in_init exactly when the first   *)
(* assignment to self.<name> inside a function, among the statements of    *)
(* its class, has a function named __init__ as its innermost function; a   *)
(* class whose only statement is an __init__ that assigns self.x has       *)
(* init.name = "__init__", no methods and the one instance attribute x,    *)
(* declared_in_init.                                                       *)
(***************************************************************************)
SelfAssigns(c, a) ==
    {n \in Nodes : AssignsSelf(n, a) /\ EnclosingClass(n) = c /\ EnclosingFunction(n) # 0}

Min(S) == CHOOSE n \in S : \A m \in S : n <= m

InitOnly ==
    /\ Len(tree) = 3
    /\ IsClass(1) /\ tree[1].parent = 0
    /\ tree[2].node = [kind |-> "FunctionDef", name |-> "__init__", decorator_list |-> <<>>]
    /\ tree[2].parent = 1
    /\ tree[3].node = [kind |-> "Assign", targets |-> <<SelfAttr("x")>>, value |-> Name("b")]
    /\ tree[3].parent = 2

C6_DeclaredInInit ==
    Extracted =>
        /\ \A c \in Nodes : IsClass(c) =>
              \A k \in InfosOf(c) :
                  \A j \in 1..Len(Module.classes[k].attributes) :
                      LET a == Module.classes[k].attributes[j] IN
                      a.is_instance =>
                          /\ SelfAssigns(c, a.name) # {}
                          /\ a.declared_in_init <=>
                                tree[EnclosingFunction(Min(SelfAssigns(c, a.name)))].node.name
                                    = "__init__"
        /\ InitOnly =>
              /\ Len(Module.classes) = 1
              /\ Module.classes[1].name = tree[1].node.name
              /\ Module.classes[1].init # None
              /\ Module.classes[1].init[1].name = "__init__"
              /\ Module.classes[1].methods = <<>>
              /\ Len(Module.classes[1].attributes) = 1
              /\ Module.classes[1].attributes[1].name = "x"
              /\ Module.classes[1].attributes[1].is_instance
              /\ Module.classes[1].attributes[1].declared_in_init

\* self.x is assigned in a method f and later in __init__ of the same class
C6_Witness ==
    /\ Extracted
    /\ \E c \in Nodes, n \in Nodes, m \in Nodes :
          /\ IsClass(c) /\ n < m
          /\ n \in SelfAssigns(c, "x") /\ m \in SelfAssigns(c, "x")
          /\ tree[EnclosingFunction(n)].node.name = "f"
          /\ tree[EnclosingFunction(m)].node.name = "__init__"
          /\ \E k \in InfosOf(c) :
                /\ Len(Module.classes[k].attributes) = 1
                /\ ~Module.classes[k].attributes[1].declared_in_init

(***************************************************************************)
(* C7: the functions of an extracted module are exactly the function and   *)
(* async function definitions at module level, in the order of their       *)
(* definition; a function inside a function or a class is not among them.  *)
(***************************************************************************)
\* the numbers of S in ascending order
RECURSIVE Ascending(_)
Ascending(S) == IF S = {} THEN <<>> ELSE <<Min(S)>> \o Ascending(S \ {Min(S)})

TopLevelFunctions == Ascending({n \in Nodes : IsFunction(n) /\ tree[n].parent = 0})

C7_TopLevelFunctions ==
    Extracted =>
        /\ Len(Module.functions) = Len(TopLevelFunctions)
        /\ \A k \in 1..Len(Module.functions) :
              /\ Module.functions[k].lineno = TopLevelFunctions[k]
              /\ Module.functions[k].name = tree[TopLevelFunctions[k]].node.name

\* a function in a function in a function, at module level
C7_Witness ==
    /\ Extracted
    /\ Len(Module.functions) = 1
    /\ \E n \in Nodes, m \in Nodes :
          /\ IsFunction(n) /\ IsFunction(m)
          /\ tree[n].parent = m /\ tree[m].parent # 0 /\ EnclosingClass(n) = 0

(***************************************************************************)
(* C8: the classes of an extracted module are the class definitions of     *)
(* the tree, each once, in the order of their definition (an outer class   *)
(* before the classes of its body).                                        *)
(***************************************************************************)
ClassDefs == Ascending({n \in Nodes : IsClass(n)})

C8_FlatClassList ==
    Extracted =>
        /\ Len(Module.classes) = Len(ClassDefs)
        /\ \A k \in 1..Len(Module.classes) :
              /\ Module.classes[k].lineno = ClassDefs[k]
              /\ Module.classes[k].name = tree[ClassDefs[k]].node.name

\* a class in a method of a class
C8_Witness ==
    /\ Extracted
    /\ Len(Module.classes) = 2
    /\ \E n \in Nodes :
          /\ IsClass(n)
          /\ tree[n].parent # 0 /\ IsFunction(tree[n].parent)
          /\ EnclosingClass(n) # 0

(***************************************************************************)
(* C9: parse_files never raises and returns one module per path, the n-th  *)
(* module for the n-th path.                                               *)
(***************************************************************************)
C9_OneModulePerPath ==
    /\ pc # "raised"
    /\ pc = "returned" =>
          /\ Len(project[1].modules) = Len(paths)
          /\ \A n \in 1..Len(paths) : project[1].modules[n].path = resolve(paths[n])

(***************************************************************************)
(* The texts of the generators, read back line by line.                    *)
(***************************************************************************)
InheritanceArrows == {" --|> ", " <|-- "}
RelationArrows == {"*--", "o--"}
LabelMarks == {" : \"", " : "}

\* the names a text declares: `class <name> {` or `class <name>`
DeclaredClasses(text) ==
    {IF Last(l) = " {" THEN SubSeq(l, 2, Len(l) - 1) ELSE Tail(l) :
        l \in {l \in Range(text) : l # <<>> /\ l[1] = "class "}}

DeclarationCount(text) == Cardinality({n \in 1..Len(text) : text[n] # <<>> /\ text[n][1] = "class "})

IsInheritanceLine(l) == \E n \in 1..Len(l) : l[n] \in InheritanceArrows
IsRelationLine(l) == \E n \in 2..(Len(l) - 1) : l[n] \in RelationArrows /\ l[n - 1] = " " /\ l[n + 1] = " "

\* the two names an edge line joins, {} for any other line
Endpoints(l) ==
    IF IsInheritanceLine(l)
    THEN LET n == CHOOSE n \in 1..Len(l) : l[n] \in InheritanceArrows
         IN  {SubSeq(l, 1, n - 1), SubSeq(l, n + 1, Len(l))}
    ELSE IF IsRelationLine(l)
    THEN LET n == CHOOSE n \in 2..(Len(l) - 1) : l[n] \in RelationArrows
             marks == {m \in 1..Len(l) : l[m] \in LabelMarks}
             end == IF marks = {} THEN Len(l) ELSE Least(marks) - 1
         IN  {SubSeq(l, 1, n - 2), SubSeq(l, n + 2, end)}
    ELSE {}

EdgeLines(text) == {l \in Range(text) : Endpoints(l) # {}}

\* every edge line of the text joins two classes that the text declares,
\* and the text declares at most max_classes classes when that is positive
Gated(text) ==
    /\ \A l \in Range(text) : Endpoints(l) \subseteq DeclaredClasses(text)
    /\ diagram_options.max_classes > 0 => DeclarationCount(text) <= diagram_options.max_classes

(***************************************************************************)
(* C10: in the PlantUML text and in the Mermaid text, both ends of every   *)
(* inheritance line and of every composition or aggregation line are       *)
(* names of selected classes, the classes the text declares; no line       *)
(* names a class that max_classes cut off.                                 *)
(***************************************************************************)
C10_EdgesBetweenSelectedClasses ==
    /\ plantuml # None => Gated(plantuml[1])
    /\ mermaid # None => Gated(mermaid[1])

\* the names of the classes of the project
ProjectClassNames ==
    UNION {{diagram_project.modules[m].classes[c].name :
               c \in 1..Len(diagram_project.modules[m].classes)} :
           m \in 1..Len(diagram_project.modules)}

\* three classes of which two are selected; a selected class has an edge to
\* the third and a base of its name, and both texts show another edge
C10_Witness ==
    /\ plantuml # None /\ mermaid # None
    /\ diagram_options.max_classes = 2
    /\ Cardinality(ProjectClassNames) = 3
    /\ Cardinality(DeclaredClasses(plantuml[1])) = 2
    /\ DeclaredClasses(mermaid[1]) = DeclaredClasses(plantuml[1])
    /\ \E l \in EdgeLines(plantuml[1]) : IsRelationLine(l)
    /\ \E l \in EdgeLines(mermaid[1]) : IsRelationLine(l)
    /\ \E m \in 1..Len(diagram_project.modules) :
          \E c \in 1..Len(diagram_project.modules[m].classes) :
              LET cls == diagram_project.modules[m].classes[c] IN
              /\ cls.name \in DeclaredClasses(plantuml[1])
              /\ \E r \in 1..Len(cls.compositions) :
                    /\ _short_class_name(cls.compositions[r].target) \in ProjectClassNames
                    /\ _short_class_name(cls.compositions[r].target) \notin DeclaredClasses(plantuml[1])
              /\ \E b \in 1..Len(cls.bases) :
                    /\ _short_class_name(cls.bases[b]) \in ProjectClassNames
                    /\ _short_class_name(cls.bases[b]) \notin DeclaredClasses(plantuml[1])

(***************************************************************************)
(* The classes of a text with their method lines.                          *)
(***************************************************************************)
IsDeclaration(l) == l # <<>> /\ l[1] = "class "

DeclaredName(l) == IF Last(l) = " {" THEN SubSeq(l, 2, Len(l) - 1) ELSE Tail(l)

\* `    + <method>()` in PlantUML, `<class> : +<method>()` in Mermaid
IsMethodLine(l) == l # <<>> /\ (l[1] = "    + " \/ " : +" \in Range(l)) /\ Last(l) = "()"

MethodName(l) ==
    IF l[1] = "    + "
    THEN SubSeq(l, 2, Len(l) - 1)
    ELSE SubSeq(l, Least(Positions(l, " : +")) + 1, Len(l) - 1)

\* the class a Mermaid method line names, the class of the block otherwise
MethodOwner(l, block) ==
    IF l[1] = "    + " THEN block ELSE SubSeq(l, 1, Least(Positions(l, " : +")) - 1)

\* the method lines that follow the declaration in line n
MethodLines(text, n) ==
    LET ends == {e \in n..Len(text) : \A k \in (n + 1)..e : IsMethodLine(text[k])}
    IN  SubSeq(text, n + 1, Greatest(ends))

\* (class name, method names) for every declaration of the text, in order
Blocks(text) ==
    LET decls == Ascending({n \in 1..Len(text) : IsDeclaration(text[n])})
    IN  [k \in 1..Len(decls) |->
            <<DeclaredName(text[decls[k]]),
              [m \in 1..Len(MethodLines(text, decls[k])) |->
                  MethodName(MethodLines(text, decls[k])[m])]>>]

Count(s, x) == Cardinality({n \in 1..Len(s) : s[n] = x})

SameBag(s, t) == \A x \in Range(s) \cup Range(t) : Count(s, x) = Count(t, x)

\* the names of the methods of cls that do not start with an underscore
PublicMethodNames(cls) ==
    LET NoUnderscore(f) == f.name[1] # "_"
        fs == SelectSeq(cls.methods, NoUnderscore)
    IN  [m \in 1..Len(fs) |-> fs[m].name]

\* (class name, public method names) of the classes cs
PublicBlocks(cs) == [k \in 1..Len(cs) |-> <<cs[k].name, PublicMethodNames(cs[k])>>]

\* every method line stands in the block of its class and names no method
\* that starts with an underscore
PublicMethodLines(text) ==
    \A n \in 1..Len(text) :
        IsDeclaration(text[n]) =>
            \A m \in 1..Len(MethodLines(text, n)) :
                LET l == MethodLines(text, n)[m] IN
                /\ MethodName(l)[1] # "_"
                /\ MethodOwner(l, DeclaredName(text[n])) = DeclaredName(text[n])

(***************************************************************************)
(* C11: with public_only, in the PlantUML text and in the Mermaid text no  *)
(* method whose name starts with an underscore is rendered, and every      *)
(* selected class is rendered with all its methods whose name does not     *)
(* start with an underscore, in their order.                               *)
(***************************************************************************)
C11_PublicOnlyMethods ==
    diagram_options.public_only =>
        /\ plantuml # None =>
              /\ PublicMethodLines(plantuml[1])
              /\ SameBag(Blocks(plantuml[1]),
                         PublicBlocks([k \in 1..Len(plantuml_select(plantuml_collect(diagram_project),
                                                                    diagram_options.max_classes)) |->
                                          plantuml_select(plantuml_collect(diagram_project),
                                                          diagram_options.max_classes)[k].cls]))
        /\ mermaid # None =>
              /\ PublicMethodLines(mermaid[1])
              /\ Blocks(mermaid[1]) =
                     PublicBlocks(mermaid_select(mermaid_collect(diagram_project),
                                                 diagram_options.max_classes))

\* both texts of a project with a private, a dunder and a public method
C11_Witness ==
    /\ diagram_options.public_only
    /\ plantuml # None /\ mermaid # None
    /\ \E b \in Range(Blocks(plantuml[1])) : b = <<(<<"B">>), << <<"m">> >> >>
    /\ \E b \in Range(Blocks(mermaid[1])) : b = <<(<<"C">>), <<>> >>
    /\ \E m \in 1..Len(diagram_project.modules) :
          \E c \in 1..Len(diagram_project.modules[m].classes) :
              /\ diagram_project.modules[m].classes[c].name = <<"C">>
              /\ diagram_project.modules[m].classes[c].methods # <<>>
    /\ Cardinality(ProjectClassNames) = 3
    /\ diagram_options.max_classes = 0

(***************************************************************************)
(* C12: the first line of the PlantUML text is @startuml and its last      *)
(* line is @enduml, for every project (also one of no module or of no      *)
(* class) and all values of the four options.                              *)
(***************************************************************************)
C12_StartAndEndMarkers ==
    plantuml # None =>
        /\ plantuml[1][1] = <<"@startuml">>
        /\ Last(plantuml[1]) = <<"@enduml">>

\* the text of a project of no module, with relations
C12_Witness ==
    /\ diagram_project.modules = <<>>
    /\ diagram_options.show_relations
    /\ diagram_options.group_by_module
    /\ plantuml = Some(<< <<"@startuml">>, <<>>, <<>>, <<"@enduml">> >>)

(***************************************************************************)
(* C13: the source loader never raises: for every path, also of a file     *)
(* that does not exist, and for all bytes, read_python_source returns a    *)
(* result with a text, an encoding and used_fallback, and so does          *)
(* _read_source_best_effort.                                               *)
(***************************************************************************)
C13_LoaderNeverRaises ==
    /\ source_text # None =>
          /\ source_text[1].raised = ""
          /\ source_text[1].used_fallback \in BOOLEAN
    /\ load_result # None => load_result[1].used_fallback \in BOOLEAN

(***************************************************************************)
(* C14: for a file without a byte-order mark, read_python_source returns   *)
(* the encoding that the first or the second line declares, with           *)
(* used_fallback False, when that codec is known and decodes all the       *)
(* bytes; else utf-8 with used_fallback False when the bytes are UTF-8;    *)
(* else utf-8 with used_fallback True.  A declaration on a later line is   *)
(* not used.                                                               *)
(***************************************************************************)
\* the encoding a line of a file declares, "" when it declares none
Declares(line) ==
    CASE line = <<"#", " ", "-*-", " ", "coding", ":", " ", "cp1251", " ", "-*-", "\n">> -> "cp1251"
      [] line = <<" ", "#", "coding", "=", "nope", "\n">> -> "nope"
      [] line = <<"#", "coding", ":", "undefined", "\n">> -> "undefined"
      [] line = <<"#", " ", "coding", ":", "utf-8", "\n">> -> "utf-8"
      [] OTHER -> ""

\* the encoding the first two of the lines declare, "" when they declare none
Declared(lines) ==
    IF Len(lines) >= 1 /\ Declares(lines[1]) # "" THEN Declares(lines[1])
    ELSE IF Len(lines) >= 2 /\ Declares(lines[2]) # "" THEN Declares(lines[2])
    ELSE ""

\* the codec is known and all the bytes are text in it
DecodesAs(raw, codec) ==
    CASE codec = "cp1251" -> "0x98" \notin Range(raw)
      [] codec = "utf-8" -> "0x98" \notin Range(raw) /\ "0xCF" \notin Range(raw)
      [] OTHER -> FALSE

C14_EncodingResolution ==
    (/\ source_text # None
     /\ source_file.exists
     /\ ~(source_file.head # <<>> /\ source_file.head[1] = _UTF8_BOM_BYTES))
    => LET raw == source_file.head
           declared == Declared(splitlines(raw))
       IN  /\ source_text[1].raised = ""
           /\ IF declared # "" /\ DecodesAs(raw, declared)
              THEN source_text[1].encoding = declared /\ ~source_text[1].used_fallback
              ELSE /\ source_text[1].encoding = "utf-8"
                   /\ source_text[1].used_fallback = ~DecodesAs(raw, "utf-8")

(***************************************************************************)
(* The reports of the tech-stack analyzer.                                 *)
(***************************************************************************)
Report == stack_report[1]

BucketNames == Range(Buckets)

TopScore(scores) == CHOOSE t \in {scores[b] : b \in BucketNames} :
                        \A b \in BucketNames : scores[b] <= t

\* the greatest score of the buckets other than one bucket of the top score
RunnerUp(scores) ==
    LET top == CHOOSE b \in BucketNames : scores[b] = TopScore(scores)
    IN  CHOOSE t \in {scores[b] : b \in BucketNames \ {top}} :
            \A b \in BucketNames \ {top} : scores[b] <= t

NoScore(scores) == \A b \in BucketNames : scores[b] = 0

(***************************************************************************)
(* C15: the classifier answers "unknown" with confidence 0 exactly when    *)
(* each of the four bucket scores is zero; otherwise the project type is a *)
(* bucket of the greatest score and the confidence is                      *)
(* min(1, 0.25 * (top score - runner-up score)), which lies in [0, 1].     *)
(* Scores are in tenths and the confidence in fortieths.                   *)
(***************************************************************************)
C15_UnknownOrBestBucket ==
    stack_report # None =>
        LET scores == Report.type_scores
            margin == TopScore(scores) - RunnerUp(scores)
        IN  /\ (Report.project_type = "unknown" /\ Report.confidence = 0) <=> NoScore(scores)
            /\ Report.project_type = "unknown" => Report.confidence = 0
            /\ ~NoScore(scores) =>
                  /\ Report.project_type \in BucketNames
                  /\ scores[Report.project_type] = TopScore(scores)
                  /\ Report.confidence =
                         (IF margin < ConfidenceUnit THEN margin ELSE ConfidenceUnit)
            /\ Report.confidence \in 0..ConfidenceUnit

\* the report of a project whose cli bucket leads another bucket that scored
\* by less than four points
C15_Witness ==
    /\ stack_report # None
    /\ Report.project_type = "cli"
    /\ Report.confidence \in 1..(ConfidenceUnit - 1)
    /\ RunnerUp(Report.type_scores) > 0

(***************************************************************************)
(* C16: no name of the standard library, of the legacy-compatibility set   *)
(* or of the noise namespaces is among the detected packages of a report   *)
(* (frameworks, libraries, all_packages, a category list), whichever       *)
(* source it came from.                                                    *)
(***************************************************************************)
DetectedPackages ==
    Report.frameworks \cup Report.libraries \cup Report.all_packages
        \cup UNION {Report.categories[c] : c \in Categories}

C16_NoFilteredNameDetected ==
    stack_report # None =>
        DetectedPackages \cap (_STDLIB_MODULES \cup _STDLIB_PY2_COMPAT \cup _NOISE_PREFIXES) = {}

Response == api_response[1]

\* where the path of the request leads, whether or not it exists
Location == Path_resolve(strip(api_request.path), FALSE).path

\* p is d or lies below d
Below(p, d) == \E n \in 0..Len(p) : SubSeq(p, 1, n) = d

\* the sandbox is on and the request names a path outside of it
OutsideRequested ==
    /\ api_response # None
    /\ api_analysis_root # None
    /\ strip(api_request.path) # <<>>
    /\ ~Below(Location, api_analysis_root[1])

MentionsOutside == "outside ANALYSIS_ROOT" \in Range(Response.detail)

Scan == scan_result[1]

\* the rules that are active for a question, from the root down, each
\* .gitignore in the order of its lines, each with what it says of the path
ActiveRules(d) ==
    Flatten([n \in 1..Len(d.stack) |->
        [k \in 1..Len(d.stack[n].rules) |->
            LET rule == d.stack[n].rules[k]
                rel_str == as_posix(_safe_rel(d.path, d.stack[n].base_dir))
            IN  [negation |-> negated(rule),
                 matches |-> IF scan_has_pathspec
                             THEN gitwildmatch_matched(rule, rel_str)
                             ELSE fallback_matched(rule, rel_str, d.is_dir)]]])

\* the last active rule that matches the path is a plain ignore pattern
LastMatchIgnores(d) ==
    LET rules == ActiveRules(d)
        matching == {n \in 1..Len(rules) : rules[n].matches}
    IN  matching # {} /\ ~rules[Greatest(matching)].negation

\* a regular Python file of ordinary size
Collectable(p) ==
    \E f \in ScanTree[Pop(p)].files :
        f.name = Last(p) /\ ~f.is_symlink /\ ~f.too_large /\ suffix(f.name) = ".py"

(***************************************************************************)
(* C19: the scanner skips a path exactly when the last matching rule among *)
(* the active .gitignore rules (the rule sets from the root down to the    *)
(* directory of the path, each in file order) is a plain ignore pattern: a *)
(* file matched by an ignore pattern and by a later negation is collected, *)
(* one whose last matching rule is a plain ignore pattern is not.          *)
(***************************************************************************)
C19_LastMatchingRuleWins ==
    scan_result # None =>
        \A d \in Scan.asked :
            /\ d.ignored <=> LastMatchIgnores(d)
            /\ (~d.is_dir /\ Collectable(d.path)) =>
                   (d.path \in Scan.python_files <=> ~LastMatchIgnores(d))

(***************************************************************************)
(* C20: a function defined in the body of another function (not directly   *)
(* in the body of a class) is in the methods list of no class, however     *)
(* classes and functions are nested.                                       *)
(***************************************************************************)
C20_NestedFunctionNoMethod ==
    Extracted =>
        \A n \in Nodes :
            (IsFunction(n) /\ tree[n].parent # 0 /\ IsFunction(tree[n].parent)) =>
                \A k \in 1..Len(Module.classes) :
                    \A m \in 1..Len(Module.classes[k].methods) :
                        Module.classes[k].methods[m].lineno # n

(***************************************************************************)
(* C21: the methods of a class are exactly the function definitions, not   *)
(* named __init__, whose nearest enclosing class definition it is (at any  *)
(* depth of function nesting, also after a class of the same body was      *)
(* closed), in the order of their definition; none of them is a function   *)
(* of the module.                                                          *)
(***************************************************************************)
\* the functions, not named __init__, whose nearest enclosing class is c
MethodDefs(c) ==
    Ascending({n \in Nodes :
                  IsFunction(n) /\ tree[n].node.name # "__init__" /\ EnclosingClass(n) = c})

C21_MethodsOfInnermostClass ==
    Extracted =>
        /\ \A c \in Nodes : IsClass(c) =>
              /\ InfosOf(c) # {}
              /\ \A k \in InfosOf(c) :
                    /\ Len(Module.classes[k].methods) = Len(MethodDefs(c))
                    /\ \A m \in 1..Len(MethodDefs(c)) :
                          /\ Module.classes[k].methods[m].lineno = MethodDefs(c)[m]
                          /\ Module.classes[k].methods[m].name = tree[MethodDefs(c)[m]].node.name
        /\ \A n \in Nodes : (IsFunction(n) /\ EnclosingClass(n) # 0) =>
              \A j \in 1..Len(Module.functions) : Module.functions[j].lineno # n

\* class A: class A: pass; def f: def f: def f -- the three functions are
\* methods of the outer class, the inner class has none
C21_Witness ==
    /\ Extracted
    /\ Len(tree) = 5
    /\ IsClass(1) /\ IsClass(2) /\ tree[2].parent = 1
    /\ IsFunction(3) /\ tree[3].parent = 1
    /\ IsFunction(4) /\ tree[4].parent = 3
    /\ IsFunction(5) /\ tree[5].parent = 4
    /\ Len(Module.classes[1].methods) = 3
    /\ Module.classes[1].methods[3].lineno = 5
    /\ Module.classes[2].methods = <<>>
    /\ Module.functions = <<>>

(***************************************************************************)
(* C22: the init of a class is the last function named __init__ among the  *)
(* statements of the body of the class itself (none when the body has      *)
(* none); the earlier ones are neither its init nor a method, and no       *)
(* function elsewhere changes the init of the class.                       *)
(***************************************************************************)
\* the functions named __init__ that are statements of the body of class c
InitDefs(c) ==
    {n \in Nodes : IsFunction(n) /\ tree[n].node.name = "__init__" /\ tree[n].parent = c}

Max(S) == CHOOSE n \in S : \A m \in S : m <= n

C22_InitIsLastOfOwnBody ==
    Extracted =>
        \A c \in Nodes : IsClass(c) =>
            \A k \in InfosOf(c) :
                /\ IF InitDefs(c) = {}
                   THEN Module.classes[k].init = None
                   ELSE /\ Module.classes[k].init # None
                        /\ Module.classes[k].init[1].lineno = Max(InitDefs(c))
                /\ \A m \in 1..Len(Module.classes[k].methods) :
                      Module.classes[k].methods[m].lineno \notin InitDefs(c)

(***************************************************************************)
(* C23: every assignment or annotated assignment to a bare name that is a  *)
(* statement of the body of a class is recorded as a class-level attribute *)
(* of that class, wherever the class is defined; every class-level         *)
(* attribute comes from such a statement, none from the body of a method.  *)
(***************************************************************************)
\* the bare names that statement n assigns to
BareNames(n) ==
    IF tree[n].node.kind = "Assign"
    THEN {tree[n].node.targets[t].id :
             t \in {t \in 1..Len(tree[n].node.targets) : tree[n].node.targets[t].k = "Name"}}
    ELSE IF tree[n].node.kind = "AnnAssign" /\ tree[n].node.target.k = "Name"
    THEN {tree[n].node.target.id}
    ELSE {}

ClassAttrs(info, a) ==
    {j \in 1..Len(info.attributes) :
        info.attributes[j].name = a /\ ~info.attributes[j].is_instance}

C23_ClassBodyAssignmentsRecorded ==
    Extracted =>
        \A c \in Nodes : IsClass(c) =>
            \A k \in InfosOf(c) :
                /\ \A n \in Nodes : tree[n].parent = c =>
                      \A a \in BareNames(n) : ClassAttrs(Module.classes[k], a) # {}
                /\ \A j \in 1..Len(Module.classes[k].attributes) :
                      LET attr == Module.classes[k].attributes[j] IN
                      ~attr.is_instance =>
                          tree[attr.lineno].parent = c /\ attr.name \in BareNames(attr.lineno)

(***************************************************************************)
(* C24: no two composition edges of the classes of an extracted module     *)
(* have the same owner, attribute, target and kind; when self.x is         *)
(* annotated with Foo in one statement of the methods of a class and       *)
(* assigned a call Foo() in another, also repeatedly, the module has       *)
(* exactly one aggregation edge and one composition edge of that owner     *)
(* from x to Foo.                                                          *)
(***************************************************************************)
\* the composition edges of the module: edge e of class k
AllEdges ==
    UNION {{<<k, e>> : e \in 1..Len(Module.classes[k].compositions)} :
              k \in 1..Len(Module.classes)}

EdgeKey(p) ==
    LET edge == Module.classes[p[1]].compositions[p[2]]
    IN  <<edge.owner, edge.attribute, edge.target, edge.kind>>

Annotates(n) ==
    /\ tree[n].node.kind = "AnnAssign"
    /\ tree[n].node.target = SelfAttr("x")
    /\ tree[n].node.annotation = Name("Foo")

AssignsCall(n) ==
    /\ tree[n].node.kind = "Assign"
    /\ AssignsSelf(n, "x")
    /\ tree[n].node.value = Call(Name("Foo"))

C24_NoDuplicateEdge ==
    Extracted =>
        /\ \A p \in AllEdges, q \in AllEdges : p # q => EdgeKey(p) # EdgeKey(q)
        /\ \A c \in Nodes :
              (/\ IsClass(c)
               /\ \E n \in Nodes, m \in Nodes :
                     /\ InMethodOf(n, c) /\ Annotates(n)
                     /\ InMethodOf(m, c) /\ AssignsCall(m))
              => \A kind \in {"aggregation", "composition"} :
                    Cardinality({p \in AllEdges :
                                    EdgeKey(p) = <<tree[c].node.name, "x", "Foo", kind>>}) = 1

\* class A: def f: self.x: Foo = Foo(); self.x = Foo(); self.x = Foo()
C24_Witness ==
    /\ Extracted
    /\ Len(tree) = 5
    /\ IsClass(1) /\ IsFunction(2)
    /\ Annotates(3) /\ AssignsCall(4) /\ AssignsCall(5)
    /\ InMethodOf(3, 1) /\ InMethodOf(4, 1) /\ InMethodOf(5, 1)
    /\ Len(Module.classes[1].compositions) = 2
    /\ Module.classes[1].compositions[1].kind = "aggregation"
    /\ Module.classes[1].compositions[2].kind = "composition"

(***************************************************************************)
(* C29: in every class of an extracted module, also one of several of the  *)
(* same name, the attribute of each composition or aggregation edge is     *)
(* the name of an attribute of that class.                                 *)
(***************************************************************************)
C29_EdgeAttributeListed ==
    Extracted =>
        \A k \in 1..Len(Module.classes) :
            \A e \in 1..Len(Module.classes[k].compositions) :
                \E j \in 1..Len(Module.classes[k].attributes) :
                    Module.classes[k].attributes[j].name
                        = Module.classes[k].compositions[e].attribute

(***************************************************************************)
(* C25: with max_classes = N > 0 both texts render the first min(N, total) *)
(* classes of the flattened class list (modules in project order, classes  *)
(* in module order) sorted by descending score 2 * methods + 3 * bases +   *)
(* 3 * compositions, classes of equal score in their flattened order;      *)
(* with max_classes <= 0 they render every class, in flattened order.      *)
(* (With group_by_module the PlantUML text regroups the same classes by    *)
(* module.)                                                                *)
(***************************************************************************)
FlatClasses ==
    Flatten([m \in 1..Len(diagram_project.modules) |-> diagram_project.modules[m].classes])

Score(cls) == 2 * Len(cls.methods) + 3 * Len(cls.bases) + 3 * Len(cls.compositions)

\* class i of the flattened list comes before class j in the sorted list
Ahead(i, j) ==
    \/ Score(FlatClasses[i]) > Score(FlatClasses[j])
    \/ Score(FlatClasses[i]) = Score(FlatClasses[j]) /\ i < j

Place(i) == 1 + Cardinality({j \in 1..Len(FlatClasses) : Ahead(j, i)})

TopClasses ==
    IF diagram_options.max_classes > 0
    THEN [p \in 1..(IF diagram_options.max_classes < Len(FlatClasses)
                    THEN diagram_options.max_classes
                    ELSE Len(FlatClasses)) |->
             FlatClasses[CHOOSE i \in 1..Len(FlatClasses) : Place(i) = p]]
    ELSE FlatClasses

\* (class name, names of the methods shown) of the classes cs
ShownBlocks(cs) ==
    IF diagram_options.public_only
    THEN PublicBlocks(cs)
    ELSE [k \in 1..Len(cs) |->
             <<cs[k].name, [m \in 1..Len(cs[k].methods) |-> cs[k].methods[m].name]>>]

C25_TopClassesStableOrder ==
    /\ mermaid # None => Blocks(mermaid[1]) = ShownBlocks(TopClasses)
    /\ plantuml # None =>
          IF diagram_options.group_by_module
          THEN SameBag(Blocks(plantuml[1]), ShownBlocks(TopClasses))
          ELSE Blocks(plantuml[1]) = ShownBlocks(TopClasses)

\* three classes, the first two of different names and the same score, the
\* third of a greater score; the texts render the third and then the first
C25_Witness ==
    /\ plantuml # None /\ mermaid # None
    /\ diagram_options.max_classes = 2
    /\ ~diagram_options.group_by_module
    /\ Len(FlatClasses) = 3
    /\ Score(FlatClasses[1]) = Score(FlatClasses[2])
    /\ Score(FlatClasses[2]) < Score(FlatClasses[3])
    /\ FlatClasses[1].name # FlatClasses[2].name
    /\ FlatClasses[2].name # FlatClasses[3].name
    /\ Len(Blocks(plantuml[1])) = 2
    /\ Blocks(plantuml[1])[1][1] = FlatClasses[3].name
    /\ Blocks(plantuml[1])[2][1] = FlatClasses[1].name
    /\ Blocks(mermaid[1]) = Blocks(plantuml[1])

(***************************************************************************)
(* C26: for the same project and the same public_only, show_relations and  *)
(* max_classes, without module grouping, the PlantUML text and the Mermaid *)
(* text render the same classes in the same order, each with the same      *)
(* methods, the same set of inheritance edges (child, parent) and the same *)
(* set of relation edges (owner, arrow, target, label).                    *)
(***************************************************************************)
\* (child, parent) of `child --|> parent` and of `parent <|-- child`
InheritanceEdge(l) ==
    LET n == CHOOSE n \in 1..Len(l) : l[n] \in InheritanceArrows
    IN  IF l[n] = " --|> "
        THEN <<SubSeq(l, 1, n - 1), SubSeq(l, n + 1, Len(l))>>
        ELSE <<SubSeq(l, n + 1, Len(l)), SubSeq(l, 1, n - 1)>>

\* (owner, arrow, target, label) of `owner arrow target`, followed by
\* ` : "label"` or ` : label` when there is a label
RelationEdge(l) ==
    LET n == CHOOSE n \in 2..(Len(l) - 1) : l[n] \in RelationArrows
        marks == {m \in 1..Len(l) : l[m] \in LabelMarks}
        end == IF marks = {} THEN Len(l) ELSE Least(marks) - 1
        label == IF marks = {} THEN <<>>
                 ELSE IF l[Least(marks)] = " : \""
                 THEN SubSeq(l, Least(marks) + 1, Len(l) - 1)
                 ELSE SubSeq(l, Least(marks) + 1, Len(l))
    IN  <<SubSeq(l, 1, n - 2), <<l[n]>>, SubSeq(l, n + 2, end), label>>

InheritanceEdges(text) == {InheritanceEdge(l) : l \in {l \in Range(text) : IsInheritanceLine(l)}}

RelationEdges(text) == {RelationEdge(l) : l \in {l \in Range(text) : IsRelationLine(l)}}

C26_SameStructure ==
    (plantuml # None /\ mermaid # None /\ ~diagram_options.group_by_module) =>
        /\ Blocks(plantuml[1]) = Blocks(mermaid[1])
        /\ InheritanceEdges(plantuml[1]) = InheritanceEdges(mermaid[1])
        /\ RelationEdges(plantuml[1]) = RelationEdges(mermaid[1])

\* both texts of three classes of which max_classes selects two, with a
\* method, an inheritance edge and a labelled relation edge
C26_Witness ==
    /\ plantuml # None /\ mermaid # None
    /\ ~diagram_options.group_by_module
    /\ ~diagram_options.public_only
    /\ diagram_options.show_relations
    /\ diagram_options.max_classes = 2
    /\ Len(FlatClasses) = 3
    /\ Len(Blocks(mermaid[1])) = 2
    /\ Blocks(mermaid[1])[1][1] # FlatClasses[1].name
    /\ \E b \in Range(Blocks(mermaid[1])) : b[2] # <<>>
    /\ InheritanceEdges(mermaid[1]) # {}
    /\ \E e \in RelationEdges(plantuml[1]) : e[4] # <<>>

(***************************************************************************)
(* C27: in both texts the inheritance lines, read as (child, parent), and  *)
(* the relation lines, read as (owner, arrow, target, label), are in       *)
(* strictly ascending order, so that no edge is rendered twice; a project  *)
(* whose classes list their bases and compositions in another order, or    *)
(* list entries again, gives the same two texts.                           *)
(***************************************************************************)
\* the lines of the text that satisfy Is, in order, read by Edge
EdgeSeq(text, Is(_), Edge(_)) ==
    LET ls == SelectSeq(text, Is) IN [k \in 1..Len(ls) |-> Edge(ls[k])]

StrictlyAscending(es) == \A k \in 1..(Len(es) - 1) : TupleLess(es[k], es[k + 1])

EdgesOnceAndSorted(text) ==
    /\ StrictlyAscending(EdgeSeq(text, IsInheritanceLine, InheritanceEdge))
    /\ StrictlyAscending(EdgeSeq(text, IsRelationLine, RelationEdge))

Reverse(s) == [k \in 1..Len(s) |-> s[Len(s) + 1 - k]]

Twice(s) == s \o s

\* the project with the bases and the compositions of every class
\* rearranged by F
Rearranged(proj, F(_)) ==
    LET Class(cls) == [cls EXCEPT !.bases = F(cls.bases),
                                  !.compositions = F(cls.compositions)]
        Mod(module) == [module EXCEPT !.classes =
                           [c \in 1..Len(module.classes) |-> Class(module.classes[c])]]
    IN  [proj EXCEPT !.modules = [m \in 1..Len(proj.modules) |-> Mod(proj.modules[m])]]

\* both texts are the texts of the project rearranged by F
SameTexts(F(_)) ==
    /\ plantuml # None =>
          plantuml[1] = DiagramGenerator_generate_class_diagram(
                            Rearranged(diagram_project, F), diagram_options)
    /\ mermaid # None =>
          mermaid[1] = MermaidDiagramGenerator_generate_class_diagram(
                           Rearranged(diagram_project, F), diagram_options)

C27_EdgesOnceSortedAnyOrder ==
    /\ plantuml # None => EdgesOnceAndSorted(plantuml[1])
    /\ mermaid # None => EdgesOnceAndSorted(mermaid[1])
    /\ SameTexts(Reverse)
    /\ SameTexts(Twice)
    /\ SameTexts(Distinct)

(***************************************************************************)
(* C27, amended: the edge lines are in strictly ascending order; another   *)
(* order of the bases and compositions gives the same two texts, and so    *)
(* does a repetition of entries when max_classes <= 0 (the score of a      *)
(* class counts its entries, so a repetition can change which classes      *)
(* max_classes selects).                                                   *)
(***************************************************************************)
C27_EdgesOnceSortedSameSelection ==
    /\ plantuml # None => EdgesOnceAndSorted(plantuml[1])
    /\ mermaid # None => EdgesOnceAndSorted(mermaid[1])
    /\ SameTexts(Reverse)
    /\ diagram_options.max_classes <= 0 => SameTexts(Twice) /\ SameTexts(Distinct)

\* both texts of all classes of a project, with two inheritance lines and
\* two relation lines, a class that lists a composition twice and a class
\* whose bases read differently in reverse
C27_Witness ==
    /\ plantuml # None /\ mermaid # None
    /\ diagram_options.show_relations
    /\ diagram_options.max_classes <= 0
    /\ Len(EdgeSeq(plantuml[1], IsInheritanceLine, InheritanceEdge)) >= 2
    /\ Len(EdgeSeq(mermaid[1], IsRelationLine, RelationEdge)) >= 2
    /\ \E k \in 1..Len(FlatClasses) :
          Distinct(FlatClasses[k].compositions) # FlatClasses[k].compositions
    /\ \E k \in 1..Len(FlatClasses) : Reverse(FlatClasses[k].bases) # FlatClasses[k].bases

(***************************************************************************)
(* C28: in every result of read_python_source, used_fallback is True       *)
(* exactly when the text was decoded with replacement of invalid           *)
(* sequences: when the bytes read have no strict decoding in the codec of  *)
(* the result.                                                             *)
(***************************************************************************)
\* the codec that decodes for the encoding a result names
CodecOf(encoding) == IF encoding = "utf-8-sig" THEN "utf-8" ELSE encoding

C28_FallbackIffReplaced ==
    (source_text # None /\ source_text[1].raised = "") =>
        (source_text[1].used_fallback
            <=> decode(source_file.head, CodecOf(source_text[1].encoding), "strict").raised # "")

(***************************************************************************)
(* C30.  Whenever GitHubFetcher.fetch(repo_url, ref=ref) returns a         *)
(* FetchResult, the directory at its local_path holds a clone of repo_url  *)
(* (a directory with a .git whose origin is the stripped repo_url) that is *)
(* checked out at ref (at the default branch when ref is None), whatever   *)
(* fetch calls were made on the workspace before: calls that raised after  *)
(* the clone was made, and calls that removed directories older than the   *)
(* TTL.                                                                    *)
(***************************************************************************)
C30_FetchedIsCloneAtRef ==
    (fetch_result # None /\ fetch_result[1].raised = "") =>
        LET result == fetch_result[1].result[1]
            dir == fetch_workspace[result.local_path]
        IN  /\ dir.exists
            /\ dir.git
            /\ dir.origin = result.repo_url
            /\ dir.head = (IF result.ref = None THEN <<"HEAD">> ELSE result.ref)

====
